---- MODULE Spec2Model ----
(***************************************************************************)
(* Trigger/acquisition layer of the pre-SCPI bench multimeter drivers of   *)
(* python-ivi: keithley192, keithley199, agilent3456A, agilent3458A,       *)
(* prema6031A and philipsPM2534.                                           *)
(*                                                                         *)
(* A driver call is one action.  A handler is an operator from a call      *)
(* state s to a call state:                                                *)
(*   s.sim   driver_operation.simulate                                     *)
(*   s.cfg   the cached configuration (the _xxx attributes)               *)
(*   s.inst  the instrument on the other side of the transport            *)
(*   s.tx    the commands sent during the call, in order                   *)
(*   s.rd    the reply records received during the call, in order          *)
(*   s.err   the exception that left the call, or NoErr                    *)
(*   s.ret   the value returned                                            *)
(* A raised exception ends the call: every primitive is the identity on a  *)
(* state whose err is set.                                                 *)
(*                                                                         *)
(* A command is a sequence of tokens, a token a letter part and an        *)
(* argument part (<<Tok("R", "2"), X>> is the string "R2X"); a reply line  *)
(* is a sequence of characters.                                            *)
(*                                                                         *)
(* Magnitudes are integers: volts and amperes in units of 0.01, ohms in    *)
(* units of 100, so that every key of the range tables is a whole number.  *)
(***************************************************************************)
EXTENDS Integers, Sequences, FiniteSets, TLC

VARIABLES dev, simulate, cfg, inst, call

vars == <<dev, simulate, cfg, inst, call>>

(* ------------------------------------------------------------------ *)
(* Devices, exceptions, values                                        *)
(* ------------------------------------------------------------------ *)

TableDevices == {"keithley192", "keithley199", "agilent3456A", "prema6031A"}

KeithleyDevices == {"keithley192", "keithley199"}

MultiPointDevices == {"keithley192", "keithley199", "agilent3456A"}

Devices == TableDevices \cup {"agilent3458A", "philipsPM2534"}

NoErr == "none"

\* Python's None: the value of a call that returns nothing.
None == [kind |-> "None"]

Abs(x) == IF x < 0 THEN -x ELSE x

Last(q) == q[Len(q)]

\* str.lower on the argument spellings in use.
Lower(v) ==
    CASE v = "ON" -> "on"
      [] v = "OFF" -> "off"
      [] v = "Immediate" -> "immediate"
      [] v = "BUS" -> "bus"
      [] OTHER -> v

\* str.upper on the auto range spellings.
UpperCase(v) ==
    CASE v = "on" -> "ON"
      [] v = "off" -> "OFF"
      [] v = "once" -> "ONCE"
      [] OTHER -> v

(* ------------------------------------------------------------------ *)
(* Range tables                                                       *)
(* ------------------------------------------------------------------ *)

\* RangeMapping of a table-driven device: function -> the OrderedDict's
\* (key, range code) items in insertion order.
RangeMapping(d) ==
    CASE d = "keithley192" ->
           [dc_volts |-> <<<<20, "1">>, <<200, "2">>, <<2000, "3">>,
                           <<20000, "4">>, <<200000, "5">>>>,
            two_wire_resistance |-> <<<<2, "1">>, <<20, "2">>, <<200, "3">>, <<2000, "4">>, <<20000, "5">>, <<200000, "6">>>>,
            four_wire_resistance |-> <<<<2, "1">>, <<20, "2">>, <<200, "3">>, <<2000, "4">>, <<20000, "5">>, <<200000, "6">>>>]
      [] d = "keithley199" ->
           [dc_volts |-> <<<<30, "1">>, <<300, "2">>, <<3000, "3">>, <<30000, "4">>>>, ac_volts |-> <<<<30, "1">>, <<300, "2">>, <<3000, "3">>, <<30000, "4">>>>,
            two_wire_resistance |-> <<<<3, "1">>, <<30, "2">>, <<300, "3">>, <<3000, "4">>, <<30000, "5">>, <<300000, "6">>, <<3000000, "7">>>>, four_wire_resistance |-> <<<<3, "1">>, <<30, "2">>, <<300, "3">>, <<3000, "4">>, <<30000, "5">>, <<300000, "6">>, <<3000000, "7">>>>,
            dc_current |-> <<<<3, "1">>, <<300, "2">>>>, ac_current |-> <<<<3, "1">>, <<300, "2">>>>]
      [] d = "agilent3456A" ->
           [dc_volts |-> <<<<10, "2">>, <<100, "3">>, <<1000, "4">>, <<10000, "5">>, <<100000, "6">>>>, ac_volts |-> <<<<10, "2">>, <<100, "3">>, <<1000, "4">>, <<10000, "5">>, <<100000, "6">>>>, ac_plus_dc_volts |-> <<<<10, "2">>, <<100, "3">>, <<1000, "4">>, <<10000, "5">>, <<100000, "6">>>>,
            two_wire_resistance |-> <<<<1, "2">>, <<10, "3">>, <<100, "4">>, <<1000, "5">>, <<10000, "6">>, <<100000, "7">>, <<1000000, "8">>, <<10000000, "9">>>>, four_wire_resistance |-> <<<<1, "2">>, <<10, "3">>, <<100, "4">>, <<1000, "5">>, <<10000, "6">>, <<100000, "7">>, <<1000000, "8">>, <<10000000, "9">>>>,
            dc_current |-> <<<<3, "1">>, <<300, "2">>>>, ac_current |-> <<<<3, "1">>, <<300, "2">>>>]
      [] d = "prema6031A" ->
           [dc_volts |-> <<<<20, "1">>, <<200, "2">>, <<2000, "3">>, <<20000, "4">>, <<100000, "5">>>>, ac_volts |-> <<<<20, "1">>, <<200, "2">>, <<2000, "3">>, <<20000, "4">>, <<100000, "5">>>>,
            ac_plus_dc_volts |-> <<<<20, "1">>, <<200, "2">>, <<2000, "3">>, <<20000, "4">>, <<100000, "5">>>>,
            two_wire_resistance |-> <<<<2, "1">>, <<20, "2">>, <<200, "3">>, <<2000, "4">>, <<20000, "5">>, <<200000, "6">>>>, four_wire_resistance |-> <<<<2, "1">>, <<20, "2">>, <<200, "3">>, <<2000, "4">>, <<20000, "5">>, <<200000, "6">>>>,
            dc_current |-> <<<<200, "5">>>>, ac_current |-> <<<<200, "5">>>>]

\* RangeMax of philipsPM2534.
RangeMax ==
    [dc_volts |-> 30000, ac_volts |-> 30000,
     two_wire_resistance |-> 3000000, four_wire_resistance |-> 30000,
     dc_current |-> 300, ac_current |-> 300]

\* MeasurementFunctionMapping: function -> command token.  agilent3458A
\* maps a function to the pair (func, setacv), setacv None ("") for most,
\* and the four coupling functions to a plain string, ('DSAC'), here a
\* tuple of one.
MeasurementFunctionMapping(d) ==
    CASE d = "keithley192" ->
           [dc_volts |-> "0", two_wire_resistance |-> "2",
            four_wire_resistance |-> "2"]
      [] d = "keithley199" ->
           [dc_volts |-> "0", ac_volts |-> "1", two_wire_resistance |-> "2",
            four_wire_resistance |-> "2", dc_current |-> "3",
            ac_current |-> "4"]
      [] d = "agilent3456A" ->
           [dc_volts |-> "1", ac_volts |-> "2", ac_plus_dc_volts |-> "3",
            two_wire_resistance |-> "4", four_wire_resistance |-> "5"]
      [] d = "prema6031A" ->
           [dc_volts |-> "VD", ac_volts |-> "VA", ac_plus_dc_volts |-> "VC",
            two_wire_resistance |-> "O2", four_wire_resistance |-> "O4",
            dc_current |-> "ID", ac_current |-> "IA"]
      [] d = "philipsPM2534" ->
           [dc_volts |-> "VDC", ac_volts |-> "VAC",
            two_wire_resistance |-> "RTW", four_wire_resistance |-> "RFW",
            dc_current |-> "IDC", ac_current |-> "IAC"]
      [] d = "agilent3458A" ->
           [dc_volts |-> <<"DCV", "">>, ac_volts |-> <<"ACV", "ANA">>,
            ac_volts_rndm |-> <<"ACV", "RNDM">>,
            ac_volts_sync |-> <<"ACV", "SYNC">>,
            dc_current |-> <<"DCI", "">>, ac_current |-> <<"ACI", "">>,
            ac_plus_dc_volts |-> <<"ACDCV", "">>,
            ac_plus_dc_volts_rndm |-> <<"ACDCV", "RNDM">>,
            ac_plus_dc_volts_sync |-> <<"ACDCV", "SYNC">>,
            ac_plus_dc_current |-> <<"ACDCI", "">>,
            two_wire_resistance |-> <<"OHM", "">>,
            four_wire_resistance |-> <<"OHMF", "">>,
            frequency |-> <<"FREQ", "">>, period |-> <<"PER", "">>,
            ac_cpl_direct |-> <<"DSAC">>, dc_cpl_direct |-> <<"DSDC">>,
            ac_cpl_sub |-> <<"SSAC">>, dc_cpl_sub |-> <<"SSDC">>]

\* TriggerSourceMapping: trigger source -> trigger code.
TriggerSourceMapping(d) ==
    CASE d = "keithley192" -> [imm |-> "5", bus |-> "3"]
      [] d = "keithley199" -> [immediate |-> "5", bus |-> "3", external |-> "7"]
      [] d = "agilent3456A" -> [immediate |-> "1", bus |-> "4", external |-> "2"]
      [] d = "agilent3458A" ->
           [immediate |-> "SGL", bus |-> "HOLD", external |-> "EXT"]
      [] OTHER -> [immediate |-> ""]

\* The trigger source in which a settings change may provoke a reading.
Immediate(d) == IF d = "keithley192" THEN "imm" ELSE "immediate"

(* ------------------------------------------------------------------ *)
(* Reply lines and float()                                            *)
(* ------------------------------------------------------------------ *)

Digit == {"0", "1", "2", "3", "4", "5", "6", "7", "8", "9"}

NumChar == Digit \cup {"."}

Sign == {"+", "-"}

Upper == {"A", "B", "C", "D", "E", "F", "G", "H", "I", "J", "K", "L", "M",
          "N", "O", "P", "Q", "R", "S", "T", "U", "V", "W", "X", "Y", "Z"}

Whitespace == {" ", "\t", "\r", "\n"}

DigitValue(c) ==
    CASE c = "0" -> 0 [] c = "1" -> 1 [] c = "2" -> 2 [] c = "3" -> 3
      [] c = "4" -> 4 [] c = "5" -> 5 [] c = "6" -> 6 [] c = "7" -> 7
      [] c = "8" -> 8 [] c = "9" -> 9

AllIn(q, S) == \A i \in 1..Len(q) : q[i] \in S

Count(q, S) == Cardinality({i \in 1..Len(q) : q[i] \in S})

\* str.strip(): the line without its leading and trailing whitespace.
RECURSIVE LStrip(_)
LStrip(q) == IF q # <<>> /\ Head(q) \in Whitespace THEN LStrip(Tail(q)) ELSE q

RECURSIVE RStrip(_)
RStrip(q) ==
    IF q # <<>> /\ Last(q) \in Whitespace
    THEN RStrip(SubSeq(q, 1, Len(q) - 1)) ELSE q

Strip(q) == RStrip(LStrip(q))

\* raw[:n]
Prefix(q, n) == SubSeq(q, 1, IF Len(q) < n THEN Len(q) ELSE n)

\* The number a run of decimal digits (a dot in it skipped) denotes.
RECURSIVE DigitsToInt(_, _)
DigitsToInt(q, acc) ==
    IF q = <<>> THEN acc
    ELSE IF Head(q) = "." THEN DigitsToInt(Tail(q), acc)
    ELSE DigitsToInt(Tail(q), 10 * acc + DigitValue(Head(q)))

\* A float is a decimal number neg * mant * 10^exp with mant not a multiple
\* of 10 (zero is mant = 0, exp = 0; -0.0 keeps neg), or an infinity.
RECURSIVE Normal(_, _, _)
Normal(neg, mant, exp) ==
    IF mant = 0 THEN [kind |-> "float", neg |-> neg, mant |-> 0, exp |-> 0]
    ELSE IF mant % 10 = 0 THEN Normal(neg, mant \div 10, exp + 1)
    ELSE [kind |-> "float", neg |-> neg, mant |-> mant, exp |-> exp]

Inf(neg) == [kind |-> "inf", neg |-> neg]

\* value < 0
IsNegative(v) == v.neg /\ (v.kind = "inf" \/ v.mant > 0)

\* Python's float(text) on the decimal literals the instruments send:
\* surrounding whitespace is dropped, then [sign] digits with at most one
\* dot [E [sign] digits].  ok = FALSE is ValueError.
NotAFloat == [ok |-> FALSE, val |-> None]

\* Digits after the dot of a mantissa.
FracDigits(m) ==
    IF Count(m, {"."}) = 0 THEN 0
    ELSE Len(m) - (CHOOSE i \in 1..Len(m) : m[i] = ".")

MantissaOk(m) ==
    AllIn(m, NumChar) /\ Count(m, {"."}) <= 1 /\ Count(m, Digit) >= 1

UnsignedOk(xd) == xd # <<>> /\ AllIn(xd, Digit)

ExponentOk(x) ==
    IF x # <<>> /\ Head(x) \in Sign THEN UnsignedOk(Tail(x)) ELSE UnsignedOk(x)

ExponentValue(x) ==
    IF Head(x) = "-" THEN 0 - DigitsToInt(Tail(x), 0)
    ELSE IF Head(x) = "+" THEN DigitsToInt(Tail(x), 0)
    ELSE DigitsToInt(x, 0)

FloatOf(neg, m, x) ==
    IF MantissaOk(m) /\ ExponentOk(x)
    THEN [ok |-> TRUE,
          val |-> Normal(neg, DigitsToInt(m, 0), ExponentValue(x) - FracDigits(m))]
    ELSE NotAFloat

ParseExponential(neg, body, es) ==
    IF es = {} THEN FloatOf(neg, body, <<"0">>)
    ELSE IF Cardinality(es) > 1 THEN NotAFloat
    ELSE FloatOf(neg, SubSeq(body, 1, (CHOOSE i \in es : TRUE) - 1),
                 SubSeq(body, (CHOOSE i \in es : TRUE) + 1, Len(body)))

ParseUnsigned(neg, body) ==
    ParseExponential(neg, body, {i \in 1..Len(body) : body[i] \in {"E", "e"}})

ParseStripped(q) ==
    IF q # <<>> /\ Head(q) \in Sign THEN ParseUnsigned(Head(q) = "-", Tail(q))
    ELSE ParseUnsigned(FALSE, q)

ParseFloat(text) == ParseStripped(Strip(text))

(* ------------------------------------------------------------------ *)
(* Reply decoders (_parse_measurement_result)                         *)
(* ------------------------------------------------------------------ *)

\* A decoder's outcome: the value returned, or the exception raised and the
\* text it carries.
Decoded(v) == [err |-> NoErr, val |-> v, text |-> <<>>]

DecodeError(e, raw) == [err |-> e, val |-> None, text |-> raw]

\* value = float(raw_value): the ValueError of a field that is no number
\* leaves the decoder as it is.
FloatOrValueError(f, raw_value) ==
    IF f.ok THEN Decoded(f.val) ELSE DecodeError("ValueError", raw_value)

\* An overflow reply read as over-range whatever the sign.
OverflowUnsigned(v) == Inf(FALSE)

\* An overflow reply is the infinity of the numeric field's sign.
Overflow(v) == IF IsNegative(v) THEN Inf(TRUE) ELSE Inf(FALSE)

\* if overflow == 'O': return float('-inf') if value < 0 else float('+inf')
WithOverflow(overflow, r) ==
    IF r.err = NoErr /\ overflow = "O" THEN Decoded(Overflow(r.val)) ELSE r

\* [+-][0-9.]{8}E[+-]\d at position p of q (12 characters).
MatchesNumber(q, p) ==
    /\ q[p] \in Sign
    /\ \A i \in (p + 1)..(p + 8) : q[i] \in NumChar
    /\ q[p + 9] = "E"
    /\ q[p + 10] \in Sign
    /\ q[p + 11] \in Digit

KeithleyTags(d) ==
    IF d = "keithley199"
    THEN {<<"D", "C", "V">>, <<"A", "C", "V">>, <<"D", "C", "I">>,
          <<"A", "C", "I">>, <<"O", "H", "M">>}
    ELSE {<<"D", "C", "V">>, <<"A", "C", "V">>, <<"O", "H", "M">>}

\* re.fullmatch of the Keithley grammars:
\*   199: ([OZN])(DCV|ACV|DCI|ACI|OHM)([+-][0-9.]{8}E[+-]\d),B\d{3},C\d
\*   192: ([OZN])(DCV|ACV|OHM)([+-][0-9.]{8}E[+-]\d)
KeithleyMatch(d, q) ==
    /\ Len(q) = IF d = "keithley199" THEN 24 ELSE 16
    /\ q[1] \in {"O", "Z", "N"}
    /\ SubSeq(q, 2, 4) \in KeithleyTags(d)
    /\ MatchesNumber(q, 5)
    /\ d = "keithley199" =>
         /\ q[17] = "," /\ q[18] = "B"
         /\ \A i \in 19..21 : q[i] \in Digit
         /\ q[22] = "," /\ q[23] = "C" /\ q[24] \in Digit

ParseKeithley(d, raw) ==
    IF ~KeithleyMatch(d, raw) THEN DecodeError("UnexpectedResponse", raw)
    ELSE WithOverflow(raw[1], FloatOrValueError(ParseFloat(SubSeq(raw, 5, 16)),
                                                SubSeq(raw, 5, 16)))

\* agilent3456A: re.fullmatch(r'([+-][0-9.]{8}E[+-]\d)', raw).
Parse3456A(raw) ==
    IF ~(Len(raw) = 12 /\ MatchesNumber(raw, 1))
    THEN DecodeError("UnexpectedResponse", raw)
    ELSE FloatOrValueError(ParseFloat(raw), raw)

\* except ValueError: raise UnexpectedResponseException(raw_result)
FloatOrUnexpected(f, raw) ==
    IF f.ok THEN Decoded(f.val) ELSE DecodeError("UnexpectedResponse", raw)

\* agilent3458A: float(raw.strip()).
Parse3458A(raw) == FloatOrUnexpected(ParseFloat(Strip(raw)), raw)

ERROR01 == <<"E", "R", "R", "O", "R", " ", "0", "1">>

\* The handler without the overflow case: every ValueError is re-raised.
FloatOrError01Reraised(f, raw_value) ==
    IF f.ok THEN Decoded(f.val) ELSE DecodeError("ValueError", raw_value)

\* except ValueError: 'ERROR 01' is the overflow reply, any other text
\* re-raises the ValueError.
FloatOrError01(f, raw_value) ==
    IF f.ok THEN Decoded(f.val)
    ELSE IF Strip(raw_value) = ERROR01 THEN Decoded(Inf(FALSE))
    ELSE DecodeError("ValueError", raw_value)

\* prema6031A: float(raw[:13]).
ParsePrema(raw) == FloatOrError01(ParseFloat(Prefix(raw, 13)), Prefix(raw, 13))

\* [0-9.]{5,8}E[+-][0-9]{2}, the whole of q.
PhilipsUnsigned(q) ==
    /\ Len(q) \in 9..12
    /\ AllIn(SubSeq(q, 1, Len(q) - 4), NumChar)
    /\ q[Len(q) - 3] = "E"
    /\ q[Len(q) - 2] \in Sign
    /\ q[Len(q) - 1] \in Digit
    /\ q[Len(q)] \in Digit

\* [+-]?[0-9.]{5,8}E[+-][0-9]{2}, the whole of q.
PhilipsNumber(q) ==
    IF q # <<>> /\ Head(q) \in Sign THEN PhilipsUnsigned(Tail(q))
    ELSE PhilipsUnsigned(q)

\* The (a, b) with raw = [A-Z]{3}, spaces up to a - 1, the overflow
\* character at a, spaces up to b - 1, the number from b on.
PhilipsSplits(raw) ==
    {ab \in (5..Len(raw)) \X (6..Len(raw)) :
        /\ ab[1] < ab[2]
        /\ AllIn(SubSeq(raw, 1, 3), Upper)
        /\ AllIn(SubSeq(raw, 4, ab[1] - 1), {" "})
        /\ raw[ab[1]] \in {"O", " "}
        /\ AllIn(SubSeq(raw, ab[1] + 1, ab[2] - 1), {" "})
        /\ PhilipsNumber(SubSeq(raw, ab[2], Len(raw)))}

PhilipsGroups(raw, ab) ==
    WithOverflow(raw[ab[1]],
                 FloatOrValueError(ParseFloat(SubSeq(raw, ab[2], Len(raw))),
                                   SubSeq(raw, ab[2], Len(raw))))

PhilipsMatch(raw, splits) ==
    IF splits = {} THEN DecodeError("UnexpectedResponse", raw)
    ELSE PhilipsGroups(raw, CHOOSE s \in splits : \A t \in splits : s[1] >= t[1])

\* philipsPM2534:
\*   re.fullmatch(r'([A-Z]{3}) +([O ]) *([+-]?[0-9.]{5,8}E[+-][0-9]{2})')
ParsePhilips(raw) == PhilipsMatch(raw, PhilipsSplits(raw))

ParseMeasurementResult(d, raw) ==
    CASE d \in KeithleyDevices -> ParseKeithley(d, raw)
      [] d = "agilent3456A" -> Parse3456A(raw)
      [] d = "agilent3458A" -> Parse3458A(raw)
      [] d = "prema6031A" -> ParsePrema(raw)
      [] d = "philipsPM2534" -> ParsePhilips(raw)

\* _measurement_is_over_range / _measurement_is_under_range of the devices
\* that return an infinity for an overflow reply.
IsOverRange(v) == v = Inf(FALSE)

IsUnderRange(v) == v = Inf(TRUE)

\* prema6031A tells an overflow by _measurement_is_out_of_range alone:
\* value == float('inf').
MeasurementIsOutOfRange(d, v) == Decoded(v = Inf(FALSE))

\* _measurement_is_over_range of prema6031A (raise
\* ivi.OperationNotSupportedException) and of the devices that return an
\* infinity for an overflow reply.
MeasurementIsOverRange(d, v) ==
    IF d = "prema6031A" THEN DecodeError("OperationNotSupported", <<>>)
    ELSE Decoded(IsOverRange(v))

(* ------------------------------------------------------------------ *)
(* Reply lines the decoders are applied to                            *)
(* ------------------------------------------------------------------ *)

\* A reply line is put together from a leading part, a head (status and
\* function tags), a numeric field and a tail.  Each part is either one the
\* device's reply grammar allows (good) or a deviation from it; a numeric
\* field comes with the value it denotes, a head with whether its status
\* tag is the overflow tag.

SampleNums(d) ==
    CASE d \in KeithleyDevices \cup {"agilent3456A"} -> 
         {[text |-> <<"+", "0", "9", ".", "9", "9", "3", "5", "4", "E", "+", "0">>, good |-> TRUE, val |-> [kind |-> "float", neg |-> FALSE, mant |-> 999354, exp |-> -5]],
         [text |-> <<"-", "1", ".", "2", "3", "4", "5", "6", "7", "E", "+", "2">>, good |-> TRUE, val |-> [kind |-> "float", neg |-> TRUE, mant |-> 1234567, exp |-> -4]],
         [text |-> <<"+", "0", ".", "0", "0", "0", "0", "0", "0", "E", "+", "0">>, good |-> TRUE, val |-> [kind |-> "float", neg |-> FALSE, mant |-> 0, exp |-> 0]],
         [text |-> <<"-", "0", ".", "0", "0", "0", "0", "0", "0", "E", "+", "0">>, good |-> TRUE, val |-> [kind |-> "float", neg |-> TRUE, mant |-> 0, exp |-> 0]],
         [text |-> <<"+", "9", "9", "9", "9", "9", "9", "9", "9", "E", "+", "9">>, good |-> TRUE, val |-> [kind |-> "float", neg |-> FALSE, mant |-> 99999999, exp |-> 9]],
         [text |-> <<"+", "9", ".", "9", "9", "3", "5", "4", "E", "+", "0">>, good |-> FALSE, val |-> None],
         [text |-> <<"+", "0", "9", ".", "9", "9", "3", "5", "4", "E", "+">>, good |-> FALSE, val |-> None],
         [text |-> <<"+", "1", ".", "2", ".", "3", "4", "5", "6", "E", "+", "0">>, good |-> FALSE, val |-> None],
         [text |-> <<"+", "0", "9", ".", "9", "9", "3", "5", "4", "e", "+", "0">>, good |-> FALSE, val |-> None]}
      [] d = "philipsPM2534" -> 
         {[text |-> <<"+", "9", ".", "9", "9", "3", "5", "4", "E", "+", "0", "0">>, good |-> TRUE, val |-> [kind |-> "float", neg |-> FALSE, mant |-> 999354, exp |-> -5]],
         [text |-> <<"-", "9", ".", "9", "9", "3", "5", "4", "E", "+", "0", "0">>, good |-> TRUE, val |-> [kind |-> "float", neg |-> TRUE, mant |-> 999354, exp |-> -5]],
         [text |-> <<"9", ".", "9", "9", "3", "5", "4", "E", "+", "0", "0">>, good |-> TRUE, val |-> [kind |-> "float", neg |-> FALSE, mant |-> 999354, exp |-> -5]],
         [text |-> <<"-", "0", ".", "0", "0", "0", "0", "E", "+", "0", "0">>, good |-> TRUE, val |-> [kind |-> "float", neg |-> TRUE, mant |-> 0, exp |-> 0]],
         [text |-> <<"+", "9", ".", "9", "9", "E", "+", "0", "0">>, good |-> FALSE, val |-> None],
         [text |-> <<"+", "9", ".", "9", "9", "3", "5", "4", "E", "+", "0">>, good |-> FALSE, val |-> None],
         [text |-> <<"+", "9", ".", "9", ".", "3", "5", "4", "E", "+", "0", "0">>, good |-> FALSE, val |-> None]}
      [] d = "prema6031A" -> 
         {[text |-> <<"+", "0", "9", ".", "9", "9", "3", "5", "4", "3", "E", "+", "0">>, good |-> TRUE, val |-> [kind |-> "float", neg |-> FALSE, mant |-> 9993543, exp |-> -6]],
         [text |-> <<"-", "0", "1", ".", "0", "0", "0", "0", "0", "3", "E", "+", "1">>, good |-> TRUE, val |-> [kind |-> "float", neg |-> TRUE, mant |-> 1000003, exp |-> -5]],
         [text |-> <<"0", "0", "1", ".", "0", "0", "3", "1", "0", "3", "E", "+", "2">>, good |-> TRUE, val |-> [kind |-> "float", neg |-> FALSE, mant |-> 1003103, exp |-> -4]],
         [text |-> <<"+", "0", "9", ".", "9", "9", "3", "5", "4", "3", "E", "+">>, good |-> FALSE, val |-> None],
         [text |-> <<"+", "0", "9", ".", "9", ".", "3", "5", "4", "3", "E", "+", "0">>, good |-> FALSE, val |-> None]}
      [] d = "agilent3458A" -> 
         {[text |-> <<"+", "9", ".", "9", "9", "3", "5", "4", "E", "+", "0", "0">>, good |-> TRUE, val |-> [kind |-> "float", neg |-> FALSE, mant |-> 999354, exp |-> -5]],
         [text |-> <<"-", "1", ".", "5", "E", "+", "0", "1">>, good |-> TRUE, val |-> [kind |-> "float", neg |-> TRUE, mant |-> 15, exp |-> 0]],
         [text |-> <<"+", "9", ".", "9", "9", "3", "5", "4", "E", "+">>, good |-> FALSE, val |-> None],
         [text |-> <<"+", "9", ".", "9", ".", "3", "5", "4", "E", "+", "0", "0">>, good |-> FALSE, val |-> None]}

SampleHeads(d) ==
    CASE d = "keithley199" ->
             
         {[text |-> <<"N", "D", "C", "V">>, good |-> TRUE, ovf |-> FALSE],
         [text |-> <<"Z", "O", "H", "M">>, good |-> TRUE, ovf |-> FALSE],
         [text |-> <<"O", "D", "C", "V">>, good |-> TRUE, ovf |-> TRUE],
         [text |-> <<"O", "O", "H", "M">>, good |-> TRUE, ovf |-> TRUE],
         [text |-> <<"X", "D", "C", "V">>, good |-> FALSE, ovf |-> FALSE],
         [text |-> <<"N", "X", "Y", "Z">>, good |-> FALSE, ovf |-> FALSE],
         [text |-> <<"D", "C", "V">>, good |-> FALSE, ovf |-> FALSE]} \cup {[text |-> <<"N", "D", "C", "I">>, good |-> TRUE, ovf |-> FALSE]}
      [] d = "keithley192" ->
             
         {[text |-> <<"N", "D", "C", "V">>, good |-> TRUE, ovf |-> FALSE],
         [text |-> <<"Z", "O", "H", "M">>, good |-> TRUE, ovf |-> FALSE],
         [text |-> <<"O", "D", "C", "V">>, good |-> TRUE, ovf |-> TRUE],
         [text |-> <<"O", "O", "H", "M">>, good |-> TRUE, ovf |-> TRUE],
         [text |-> <<"X", "D", "C", "V">>, good |-> FALSE, ovf |-> FALSE],
         [text |-> <<"N", "X", "Y", "Z">>, good |-> FALSE, ovf |-> FALSE],
         [text |-> <<"D", "C", "V">>, good |-> FALSE, ovf |-> FALSE]} \cup {[text |-> <<"N", "D", "C", "I">>, good |-> FALSE, ovf |-> FALSE]}
      [] d = "philipsPM2534" -> 
         {[text |-> <<"V", "D", "C", " ", " ">>, good |-> TRUE, ovf |-> FALSE],
         [text |-> <<"V", "D", "C", " ", "O">>, good |-> TRUE, ovf |-> TRUE],
         [text |-> <<"R", "T", "W", " ", " ", " ", "O", " ">>, good |-> TRUE, ovf |-> TRUE],
         [text |-> <<"V", "D", "C", " ", " ", " ", " ">>, good |-> TRUE, ovf |-> FALSE],
         [text |-> <<"V", "D", "C", "O">>, good |-> FALSE, ovf |-> FALSE],
         [text |-> <<"V", "D", " ", " ">>, good |-> FALSE, ovf |-> FALSE],
         [text |-> <<"V", "D", "C", " ", "X">>, good |-> FALSE, ovf |-> FALSE]}
      [] OTHER -> {[text |-> <<>>, good |-> TRUE, ovf |-> FALSE],
                   [text |-> <<"N">>, good |-> FALSE, ovf |-> FALSE]}

SampleTails(d) ==
    CASE d = "keithley199" ->
             {[text |-> <<",", "B", "0", "0", "0", ",", "C", "0">>, good |-> TRUE],
              [text |-> <<>>, good |-> FALSE],
              [text |-> <<",", "B", "0", "0", ",", "C", "0">>, good |-> FALSE],
              [text |-> <<",", "B", "0", "0", "0", ",", "C", "0", "X">>, good |-> FALSE],
              [text |-> <<",", "B", "0", "0", "0", ",", "C", "0", " ">>, good |-> FALSE]}
      [] d = "prema6031A" ->
             {[text |-> <<>>, good |-> TRUE],
              [text |-> <<"M", "R", "V", "D", "P", "0", "0", "A", "0", "R", "2", "F", "0", "T", "5", "D", "0", "S", "0", "Q", "0", "M", "O", "F", "B", "0", "0">>, good |-> TRUE],
              [text |-> <<"G", "A", "R", "B", "A", "G", "E">>, good |-> FALSE]}
      [] OTHER ->
             {[text |-> <<>>, good |-> TRUE],
              [text |-> <<"X">>, good |-> FALSE],
              [text |-> <<" ">>, good |-> FALSE],
              [text |-> <<",", "B", "0", "0", "0", ",", "C", "0">>, good |-> FALSE]}

SampleLeads ==
    {[text |-> <<>>, good |-> TRUE],
     [text |-> <<" ">>, good |-> FALSE]}

(* ------------------------------------------------------------------ *)
(* Driver state                                                       *)
(* ------------------------------------------------------------------ *)

\* The attributes set by ivi.Driver, dmm.Base, dmm.MultiPoint and the
\* device's __init__.  cache_valid holds the attributes marked valid in
\* the driver's cache: no handler of these drivers marks one.
DefaultCfg(d) ==
    [cache_valid |-> {},
     measurement_function |-> "dc_volts",
     range |-> 0,
     auto_range |-> "off",
     trigger_source |-> Immediate(d),
     trigger_delay |-> 0,
     trigger_delay_auto |-> FALSE,
     trigger_count |-> 1,
     sample_count |-> 1,
     sample_trigger |-> "",
     sample_interval |-> 0]

\* The instrument: its trigger mode and the reply records it has pending.
DefaultInst == [mode |-> "X", out |-> <<>>]

NoArgs == [none |-> TRUE]

\* What is recorded of a call: the operation, its arguments, the state it
\* started from and what the handler's final call state holds.
CallOf(op, args, s0, s) ==
    [op |-> op, args |-> args, sim |-> s0.sim, pre |-> s0.cfg,
     preInst |-> s0.inst, tx |-> s.tx, rd |-> s.rd, err |-> s.err,
     ret |-> s.ret, text |-> s.text]

Start(sim, c, i) ==
    [sim |-> sim, cfg |-> c, inst |-> i, tx |-> <<>>, rd |-> <<>>,
     line |-> <<>>, err |-> NoErr, ret |-> None, text |-> <<>>]

\* No call yet.
IdleCall(d) ==
    CallOf("none", NoArgs, Start(FALSE, DefaultCfg(d), DefaultInst),
           Start(FALSE, DefaultCfg(d), DefaultInst))

Raise(s, e) == IF s.err # NoErr THEN s ELSE [s EXCEPT !.err = e, !.ret = None]

RaiseWith(s, e, text) ==
    IF s.err # NoErr THEN s ELSE [s EXCEPT !.err = e, !.ret = None, !.text = text]

Return(s, v) == IF s.err # NoErr THEN s ELSE [s EXCEPT !.ret = v]

\* return self._parse_measurement_result(raw_result)
Outcome(s, r) ==
    IF r.err = NoErr THEN Return(s, r.val) ELSE RaiseWith(s, r.err, r.text)

ReturnParsed(d, s, raw) == Outcome(s, ParseMeasurementResult(d, raw))

(* ------------------------------------------------------------------ *)
(* The instrument and the transport                                   *)
(* ------------------------------------------------------------------ *)

\* The line a triggered instrument puts in its output buffer
\* (Virtual199.values['dc_volts']['0'] and its likes).
Reading(d) ==
    CASE d = "keithley199" ->
           <<"N", "D", "C", "V", "+", "0", "9", ".", "9", "9", "3", "5", "4",
             "E", "+", "0", ",", "B", "0", "0", "0", ",", "C", "0">>
      [] d = "keithley192" ->
           <<"N", "D", "C", "V", "+", "0", "9", ".", "9", "9", "3", "5", "4",
             "E", "+", "0">>
      [] d = "agilent3456A" ->
           <<"+", "0", "9", ".", "9", "9", "3", "5", "4", "E", "+", "0">>
      [] d = "agilent3458A" ->
           <<"+", "9", ".", "9", "9", "3", "5", "4", "E", "+", "0", "0">>
      [] d = "prema6031A" ->
           <<"+", "0", "9", ".", "9", "9", "3", "5", "4", "3", "E", "+", "0",
             "M", "R", "V", "D", "P", "0", "0", "A", "0", "R", "2", "F", "0",
             "T", "5", "D", "0", "S", "0", "Q", "0", "M", "O", "F", "B", "0",
             "0">>
      [] d = "philipsPM2534" ->
           <<"V", "D", "C", " ", " ", "+", "9", ".", "9", "9", "3", "5", "4",
             "E", "+", "0", "0">>

\* The lines an instrument answers a trigger with: its reading, and on
\* prema6031A the overflow reply 'ERROR 01' in the 13 columns of the value.
Replies(d) ==
    IF d = "prema6031A"
    THEN {Reading(d),
          ERROR01 \o <<" ", " ", " ", " ", " ">> \o SubSeq(Reading(d), 14, Len(Reading(d)))}
    ELSE {Reading(d)}

\* A command token: letters, then digits or an argument.
Tok(c, n) == <<c, n>>

\* The execute token of the Keithley meters.
X == Tok("X", "")

\* Virtual199.trigger_mapping: the trigger mode a T token selects.
trigger_mapping ==
    ("2" :> "GET") @@ ("3" :> "GET") @@ ("4" :> "X") @@ ("5" :> "X") @@
    ("6" :> "ext") @@ ("7" :> "ext")

\* Virtual199.write_raw: the tokens of a command are taken in order; an X
\* in trigger mode X puts a reading in the output buffer; an R, F, T or W
\* token is executed and ends the command.
RECURSIVE write_raw(_, _, _)
write_raw(d, i, cmd) ==
    IF cmd = <<>> THEN i
    ELSE IF Head(cmd) = X /\ i.mode = "X"
         THEN write_raw(d, [i EXCEPT !.out = <<Reading(d)>>], Tail(cmd))
    ELSE IF Head(cmd)[1] \in {"R", "F", "W"} THEN i
    ELSE IF Head(cmd)[1] = "T"
         THEN [i EXCEPT !.mode = trigger_mapping[Head(cmd)[2]]]
    ELSE write_raw(d, i, Tail(cmd))

\* What a command does to the instrument.  The Keithley meters are the
\* test suite's Virtual199; a command of this layer leaves the output
\* buffer of the other instruments as it is (Virtual6031A fills it on *TRG
\* only).
Receive(d, i, cmd) == IF d \in KeithleyDevices THEN write_raw(d, i, cmd) ELSE i

\* read_raw: the pending line, the empty line when nothing is pending.
PendingLine(i) == IF i.out = <<>> THEN <<>> ELSE Head(i.out)

Consumed(i) == IF i.out = <<>> THEN i ELSE [i EXCEPT !.out = Tail(@)]

\* ivi.Driver._write: nothing reaches the transport in simulate mode.
BaseWrite(d, s, data) ==
    IF s.err # NoErr \/ s.sim THEN s
    ELSE [s EXCEPT !.tx = Append(@, data), !.inst = Receive(d, s.inst, data)]

\* ivi.Driver._read.
BaseRead(s) ==
    IF s.err # NoErr THEN s
    ELSE IF s.sim THEN [s EXCEPT !.line = <<>>]
    ELSE [s EXCEPT !.line = PendingLine(s.inst),
                   !.rd = Append(@, PendingLine(s.inst)),
                   !.inst = Consumed(s.inst)]

\* ivi.Driver._ask: the command, then the reply.
BaseAsk(d, s, data) == BaseRead(BaseWrite(d, s, data))

\* _write of the device.  keithley192/199: with clear_data, a command that
\* ends in X while the trigger source is immediate is sent as a query, to
\* take out the reading the X provokes.
Write(d, s, data, clear_data) ==
    IF s.err # NoErr THEN s
    ELSE IF /\ d \in KeithleyDevices
            /\ clear_data
            /\ Last(data) = X
            /\ Lower(s.cfg.trigger_source) = Immediate(d)
         THEN BaseAsk(d, s, data)
    ELSE BaseWrite(d, s, data)

\* super()._set_xxx(value): the value is stored in the configuration.
Store(s, field, value) ==
    IF s.err # NoErr THEN s ELSE [s EXCEPT !.cfg[field] = value]

(* ------------------------------------------------------------------ *)
(* Measurement function and range                                     *)
(* ------------------------------------------------------------------ *)

\* No range code: raw_range = None.
NoCode == ""

\* The scan with a strict comparison: a magnitude equal to a key is given
\* the next larger range.
RECURSIVE SelectRangeStrict(_, _)
SelectRangeStrict(range_map, value) ==
    IF range_map = <<>> THEN NoCode
    ELSE IF Abs(value) < Head(range_map)[1] THEN Head(range_map)[2]
    ELSE SelectRangeStrict(Tail(range_map), value)

\* for k, v in range_map.items(): if abs(value) <= k: raw_range = v; break
RECURSIVE SelectRange(_, _)
SelectRange(range_map, value) ==
    IF range_map = <<>> THEN NoCode
    ELSE IF Abs(value) <= Head(range_map)[1] THEN Head(range_map)[2]
    ELSE SelectRange(Tail(range_map), value)

\* 'R{0}X' on the Keithley meters, 'R{0}' on agilent3456A and prema6031A.
RangeCommand(d, raw_range) ==
    IF d \in KeithleyDevices THEN <<Tok("R", raw_range), X>>
    ELSE <<Tok("R", raw_range)>>

\* The tail of a setter: nothing is sent in simulate mode.
Send(d, s, data) == IF s.sim THEN s ELSE Write(d, s, data, TRUE)

\* SetRangeTo storing the magnitude of the request.
SetRangeToBreakpoint(d, s, value, raw_range) ==
    IF raw_range = NoCode THEN Raise(s, "ValueNotSupported")
    ELSE Send(d, Store(s, "range", Abs(value)), RangeCommand(d, raw_range))

SetRangeTo(d, s, value, raw_range) ==
    IF raw_range = NoCode THEN Raise(s, "ValueNotSupported")
    ELSE Send(d, Store(s, "range", value), RangeCommand(d, raw_range))

\* philipsPM2534._set_range: 'RNG {0}'.format(abs(value)).
SetRangePhilips(d, s, value) ==
    IF ~(Abs(value) <= RangeMax[s.cfg.measurement_function])
    THEN Raise(s, "ValueNotSupported")
    ELSE Send(d, Store(s, "range", value), <<Tok("RNG", ToString(Abs(value)))>>)

\* _set_range.
SetRange(d, s, value) ==
    IF s.err # NoErr THEN s
    ELSE IF d \in TableDevices
         THEN SetRangeTo(d, s, value,
                         SelectRange(RangeMapping(d)[s.cfg.measurement_function],
                                     value))
    ELSE IF d = "philipsPM2534" THEN SetRangePhilips(d, s, value)
    ELSE Send(d, Store(s, "range", value), <<Tok("RANGE", ToString(value))>>)

\* The command of a measurement function.
FunctionCommand(d, value) ==
    CASE d \in KeithleyDevices ->
           <<Tok("F", MeasurementFunctionMapping(d)[value]), X>>
      [] d = "agilent3456A" -> <<Tok("F", MeasurementFunctionMapping(d)[value])>>
      [] d = "prema6031A" -> <<Tok(MeasurementFunctionMapping(d)[value], "")>>
      [] d = "philipsPM2534" -> <<Tok("FNC", MeasurementFunctionMapping(d)[value])>>
      [] d = "agilent3458A" -> <<Tok("FUNC", MeasurementFunctionMapping(d)[value][1])>>

\* agilent3458A: func, setacv = MeasurementFunctionMapping[value.lower()],
\* a ValueError when the entry is no pair; 'FUNC {0}', and 'SETACV {0}' if
\* setacv.
SetFunction3458A(d, s, value, entry) ==
    IF Len(entry) # 2 THEN Raise(s, "ValueError")
    ELSE IF entry[2] = "" THEN Write(d, s, FunctionCommand(d, value), TRUE)
    ELSE Write(d, Write(d, s, FunctionCommand(d, value), TRUE),
               <<Tok("SETACV", entry[2])>>, TRUE)

\* _set_measurement_function: the write is left to _write, which sends
\* nothing in simulate mode.
SetMeasurementFunction(d, s, value) ==
    IF value \notin DOMAIN MeasurementFunctionMapping(d)
    THEN Raise(s, "ValueNotSupported")
    ELSE IF d = "agilent3458A"
         THEN SetFunction3458A(d, Store(s, "measurement_function", value), value,
                               MeasurementFunctionMapping(d)[value])
    ELSE Write(d, Store(s, "measurement_function", value),
               FunctionCommand(d, value), TRUE)

\* The command that switches auto ranging on.
AutoRangeOn(d) ==
    CASE d \in KeithleyDevices -> <<Tok("R", "0"), X>>
      [] d = "agilent3456A" -> <<Tok("R", "1")>>
      [] d = "philipsPM2534" -> <<Tok("RNG", "A")>>

\* The spellings _set_auto_range accepts, in lower case.
AutoRangeValues(d) ==
    IF d = "agilent3458A" THEN {"on", "off", "once"} ELSE {"on", "off"}

\* prema6031A: AutoRangeMapping.
AutoRangeMapping == ("off" :> "0") @@ ("on" :> "1")

\* The part of _set_auto_range after the value is stored: on the Keithley
\* meters, agilent3456A and philipsPM2534 the value 'on' switches auto
\* ranging on and any other accepted spelling sets the stored range again.
ApplyAutoRange(d, s, value) ==
    IF s.err # NoErr \/ s.sim THEN s
    ELSE IF d = "prema6031A"
         THEN Write(d, s, <<Tok("A", AutoRangeMapping[Lower(value)])>>, TRUE)
    ELSE IF d = "agilent3458A"
         THEN Write(d, s, <<Tok("ARANGE", UpperCase(value))>>, TRUE)
    ELSE IF value = "on" THEN Write(d, s, AutoRangeOn(d), TRUE)
    ELSE SetRange(d, s, s.cfg.range)

\* _set_auto_range.
SetAutoRange(d, s, value) ==
    IF Lower(value) \notin AutoRangeValues(d) THEN Raise(s, "ValueNotSupported")
    ELSE ApplyAutoRange(d, Store(s, "auto_range", value), value)

(* ------------------------------------------------------------------ *)
(* Calls                                                              *)
(* ------------------------------------------------------------------ *)

\* A driver call: the handler's final call state s becomes the state of the
\* driver and of the instrument, and the call is recorded.
Do(op, args, s) ==
    /\ call' = CallOf(op, args, Start(simulate, cfg, inst), s)
    /\ cfg' = s.cfg
    /\ inst' = s.inst
    /\ UNCHANGED <<dev, simulate>>

\* The driver after construction, in either mode of operation.
InitDriver ==
    /\ dev \in Devices
    /\ simulate \in BOOLEAN
    /\ cfg = DefaultCfg(dev)
    /\ inst = DefaultInst
    /\ call = IdleCall(dev)

(* ------------------------------------------------------------------ *)
(* Setting the function and the range                                 *)
(* ------------------------------------------------------------------ *)

\* The keys of a range table.
Keys(range_map) == {range_map[i][1] : i \in DOMAIN range_map}

\* The range code a table gives a key.
CodeOf(range_map, k) ==
    range_map[CHOOSE i \in DOMAIN range_map : range_map[i][1] = k][2]

\* The magnitudes requested of a device in function f: zero, every key of
\* the table, its negative, and the key exceeded by one unit.
Magnitudes(d, f) ==
    {0} \cup
    UNION {{k, 0 - k, k + 1} :
             k \in IF d \in TableDevices THEN Keys(RangeMapping(d)[f])
                   ELSE IF d = "philipsPM2534" THEN {RangeMax[f]}
                   ELSE {1000}}

\* The functions requested: the device's, and one it does not have.
Functions(d) == DOMAIN MeasurementFunctionMapping(d) \cup {"temperature"}

set_range ==
    \E value \in Magnitudes(dev, cfg.measurement_function) :
        Do("set_range", [value |-> value],
           SetRange(dev, Start(simulate, cfg, inst), value))

set_measurement_function ==
    \E value \in Functions(dev) :
        Do("set_measurement_function", [value |-> value],
           SetMeasurementFunction(dev, Start(simulate, cfg, inst), value))

set_auto_range ==
    \E value \in {"on", "off", "ON", "once", "auto"} :
        Do("set_auto_range", [value |-> value],
           SetAutoRange(dev, Start(simulate, cfg, inst), value))

NextRange == set_range \/ set_measurement_function \/ set_auto_range

SpecRange == InitDriver /\ [][NextRange]_vars

(* ------------------------------------------------------------------ *)
(* Trigger source and multi-point triggering                          *)
(* ------------------------------------------------------------------ *)

\* _READINGS_MEMORY_SIZE: 500 (keithley199), 100 (keithley192) and 350
\* (agilent3456A) in the drivers, scaled down here.
READINGS_MEMORY_SIZE == 3

\* 'T{0}X' (Keithley), 'T{0}' (agilent3456A), 'TRIG {0}' (agilent3458A).
TriggerSourceCommand(d, code) ==
    CASE d \in KeithleyDevices -> <<Tok("T", code), X>>
      [] d = "agilent3456A" -> <<Tok("T", code)>>
      [] d = "agilent3458A" -> <<Tok("TRIG", code)>>

\* _set_trigger_source returning in simulate mode before it stores.
SetTriggerSourceUnlessSimulated(d, s, value) ==
    IF Lower(value) \notin DOMAIN TriggerSourceMapping(d)
    THEN Raise(s, "ValueNotSupported")
    ELSE IF s.sim THEN s
    ELSE IF d \in {"prema6031A", "philipsPM2534"}
         THEN Store(s, "trigger_source", value)
    ELSE Send(d, Store(s, "trigger_source", value),
              TriggerSourceCommand(d, TriggerSourceMapping(d)[Lower(value)]))

\* _set_trigger_source.  prema6031A and philipsPM2534 take 'immediate'
\* only and send nothing.
SetTriggerSource(d, s, value) ==
    IF Lower(value) \notin DOMAIN TriggerSourceMapping(d)
    THEN Raise(s, "ValueNotSupported")
    ELSE IF d \in {"prema6031A", "philipsPM2534"}
         THEN Store(s, "trigger_source", value)
    ELSE Send(d, Store(s, "trigger_source", value),
              TriggerSourceCommand(d, TriggerSourceMapping(d)[Lower(value)]))

\* keithley199._internal_setup_multi_point: MultiPointTriggerMapping.
MultiPointTriggerMapping ==
    ("imm" :> (("imm" :> 4) @@ ("bus" :> 2) @@ ("ext" :> 6))) @@
    ("bus" :> ("imm" :> 2)) @@
    ("ext" :> ("imm" :> 6))

\* str((int(trigger) & 0xfe) | trigger_last_bit) in a 'Q1T{0}' command.
MultiPointCommand(trigger, trigger_last_bit) ==
    <<Tok("Q", "1"), Tok("T", ToString((trigger - (trigger % 2)) + trigger_last_bit))>>

\* The command that switches multi-point off: 'B0Q0I0T{0}' (keithley199),
\* 'Q0T{0}' (keithley192), with the code of the trigger source.
SinglePointCommand(d, source) ==
    IF d = "keithley199"
    THEN <<Tok("B", "0"), Tok("Q", "0"), Tok("I", "0"),
           Tok("T", TriggerSourceMapping(d)[source])>>
    ELSE <<Tok("Q", "0"), Tok("T", TriggerSourceMapping(d)[source])>>

\* keithley199._internal_setup_multi_point, past the single-point case.
Setup199(d, s, source, sample_trigger) ==
    IF s.cfg.sample_count > 1 /\ s.cfg.trigger_count > 1
    THEN Raise(s, "ValueNotSupported")
    ELSE IF \/ source \notin DOMAIN MultiPointTriggerMapping
            \/ sample_trigger \notin DOMAIN MultiPointTriggerMapping[source]
         THEN Raise(s, "ValueNotSupported")
    ELSE Send(d, s, MultiPointCommand(MultiPointTriggerMapping[source][sample_trigger],
                                      IF s.cfg.trigger_count > 1 THEN 1 ELSE 0))

\* keithley192._internal_setup_multi_point with trigger_last_bit always 0.
Setup192Continuous(d, s, source, sample_trigger) ==
    IF source = "bus" /\ sample_trigger = "bus"
    THEN Raise(s, "ValueNotSupported")
    ELSE IF source = "imm" /\ sample_trigger = "imm" /\ s.cfg.trigger_count > 1
         THEN Raise(s, "ValueNotSupported")
    ELSE Send(d, s, MultiPointCommand(
                        IF "bus" \in {source, sample_trigger} THEN 3 ELSE 5, 0))

\* keithley192._internal_setup_multi_point without the bus/bus check.
Setup192BusBus(d, s, source, sample_trigger) ==
    IF source = "imm" /\ sample_trigger = "imm" /\ s.cfg.trigger_count > 1
    THEN Raise(s, "ValueNotSupported")
    ELSE Send(d, s, MultiPointCommand(
                        IF "bus" \in {source, sample_trigger} THEN 3 ELSE 5,
                        IF s.cfg.trigger_count = READINGS_MEMORY_SIZE THEN 1 ELSE 0))

\* keithley192._internal_setup_multi_point, past the single-point case.
Setup192(d, s, source, sample_trigger) ==
    IF source = "bus" /\ sample_trigger = "bus"
    THEN Raise(s, "ValueNotSupported")
    ELSE IF source = "imm" /\ sample_trigger = "imm" /\ s.cfg.trigger_count > 1
         THEN Raise(s, "ValueNotSupported")
    ELSE Send(d, s, MultiPointCommand(
                        IF "bus" \in {source, sample_trigger} THEN 3 ELSE 5,
                        IF s.cfg.trigger_count = READINGS_MEMORY_SIZE THEN 1 ELSE 0))

\* _internal_setup_multi_point without its single-point case.
InternalSetupMultiPointAlways(d, s) ==
    IF s.err # NoErr THEN s
    ELSE IF d = "keithley199"
         THEN Setup199(d, s, Lower(s.cfg.trigger_source), Lower(s.cfg.sample_trigger))
    ELSE Setup192(d, s, Lower(s.cfg.trigger_source), Lower(s.cfg.sample_trigger))

\* _internal_setup_multi_point of the Keithley meters.
InternalSetupMultiPoint(d, s) ==
    IF s.err # NoErr THEN s
    ELSE IF s.cfg.sample_count = 1 /\ s.cfg.trigger_count = 1
         THEN Send(d, s, SinglePointCommand(d, Lower(s.cfg.trigger_source)))
    ELSE IF d = "keithley199"
         THEN Setup199(d, s, Lower(s.cfg.trigger_source), Lower(s.cfg.sample_trigger))
    ELSE Setup192(d, s, Lower(s.cfg.trigger_source), Lower(s.cfg.sample_trigger))

\* The tail of a multi-point setter once the value is stored: the Keithley
\* meters set the trigger up again unless skip_setup; agilent3456A sends
\* '{0}STN' for a sample count and then 'RS1' in either count setter (the
\* condition there is the bound method _utility_is_using_reading_storage
\* itself, which is true).
Applied(d, s, field, skip_setup) ==
    IF s.err # NoErr THEN s
    ELSE IF d \in KeithleyDevices
         THEN (IF skip_setup THEN s ELSE InternalSetupMultiPoint(d, s))
    ELSE IF field = "sample_count"
         THEN Write(d, Write(d, s, <<Tok("STN", ToString(s.cfg.sample_count))>>, FALSE),
                    <<Tok("RS", "1")>>, FALSE)
    ELSE IF field = "trigger_count" THEN Write(d, s, <<Tok("RS", "1")>>, FALSE)
    ELSE s

\* The count setters without the upper limit.
AcceptedCountUnlimited(d, s, field, value) ==
    IF d = "keithley192"
    THEN (IF value \notin {1, READINGS_MEMORY_SIZE, READINGS_MEMORY_SIZE + 1} THEN 0
          ELSE value)
    ELSE IF value = 0 THEN READINGS_MEMORY_SIZE
    ELSE IF 1 <= value THEN value
    ELSE 0

\* The count a count setter stores for its argument, 0 when it refuses it.
\* keithley199 and agilent3456A take 0 for the memory size and any count
\* up to it; keithley192 takes 1 or the memory size, and not the memory
\* size for both counts.
AcceptedCount(d, s, field, value) ==
    IF d = "keithley192"
    THEN (IF value \notin {1, READINGS_MEMORY_SIZE} THEN 0
          ELSE IF /\ value = READINGS_MEMORY_SIZE
                  /\ s.cfg[IF field = "trigger_count" THEN "sample_count"
                           ELSE "trigger_count"] = READINGS_MEMORY_SIZE
               THEN 0
          ELSE value)
    ELSE IF value = 0 THEN READINGS_MEMORY_SIZE
    ELSE IF 1 <= value /\ value <= READINGS_MEMORY_SIZE THEN value
    ELSE 0

StoreCount(d, s, field, count, skip_setup) ==
    IF count = 0 THEN Raise(s, "ValueNotSupported")
    ELSE Applied(d, Store(s, field, count), field, skip_setup)

\* _set_trigger_multi_point_count (field trigger_count) and
\* _set_trigger_multi_point_sample_count (field sample_count).
SetCount(d, s, field, value, skip_setup) ==
    IF s.err # NoErr THEN s
    ELSE StoreCount(d, s, field, AcceptedCount(d, s, field, value), skip_setup)

\* _set_trigger_multi_point_sample_trigger.
SetSampleTrigger(d, s, value, skip_setup) ==
    IF IF d = "agilent3456A" THEN Lower(value) # "immediate"
       ELSE Lower(value) \notin DOMAIN TriggerSourceMapping(d)
    THEN Raise(s, "ValueNotSupported")
    ELSE Applied(d, Store(s, "sample_trigger", value), "sample_trigger", skip_setup)

\* _set_trigger_multi_point_sample_interval.
SetSampleInterval(d, s, value, skip_setup) ==
    IF value # 0 THEN Raise(s, "ValueNotSupported")
    ELSE Applied(d, Store(s, "sample_interval", value), "sample_interval", skip_setup)

\* _trigger_multi_point_configure: the four setters in turn, on the
\* Keithley meters with skip_setup and one trigger setup at the end.
TriggerMultiPointConfigure(d, s, trigger_count, sample_count, sample_trigger, sample_interval) ==
    Applied(d,
        SetSampleInterval(d,
            SetSampleTrigger(d,
                SetCount(d, SetCount(d, s, "trigger_count", trigger_count, TRUE),
                         "sample_count", sample_count, TRUE),
                sample_trigger, TRUE),
            sample_interval, TRUE),
        "configure", FALSE)

(* ------------------------------------------------------------------ *)
(* Taking a reading                                                   *)
(* ------------------------------------------------------------------ *)

\* The command _measurement_initiate triggers a measurement with.
TriggerCommand(d) ==
    CASE d \in KeithleyDevices -> <<X>>
      [] d = "philipsPM2534" -> <<X>>
      [] d = "agilent3456A" -> <<Tok("T", "3")>>
      [] d = "agilent3458A" -> <<Tok("TRIG", "SGL")>>
      [] d = "prema6031A" -> <<Tok("S", "1")>>

\* _measurement_initiate.  The Keithley meters set the trigger up again and
\* send X; the Agilent meters trigger when the source is 'immediate';
\* prema6031A and philipsPM2534 trigger.
Initiate(d, s) ==
    IF s.err # NoErr \/ s.sim THEN s
    ELSE IF d \in KeithleyDevices
         THEN Write(d, InternalSetupMultiPoint(d, s), TriggerCommand(d), FALSE)
    ELSE IF d \in {"agilent3456A", "agilent3458A"} /\ s.cfg.trigger_source # "immediate"
         THEN s
    ELSE Write(d, s, TriggerCommand(d), FALSE)

\* return self._parse_measurement_result(raw_result), raw_result the line
\* just read.
Parsed(d, s) == IF s.err # NoErr THEN s ELSE ReturnParsed(d, s, s.line)

\* _measurement_fetch.
Fetch(d, s) ==
    IF s.err # NoErr \/ s.sim THEN s ELSE Parsed(d, BaseRead(s))

\* _measurement_read.  The Keithley meters query 'X'; agilent3458A calls
\* _measurement_fetch() without its max_time argument; the others initiate
\* and fetch.
Read(d, s) ==
    IF d \in KeithleyDevices
    THEN (IF s.sim THEN s ELSE Parsed(d, BaseAsk(d, s, TriggerCommand(d))))
    ELSE IF d = "agilent3458A" THEN Raise(Initiate(d, s), "TypeError")
    ELSE Fetch(d, Initiate(d, s))

(* ------------------------------------------------------------------ *)
(* Triggering and acquisition calls                                   *)
(* ------------------------------------------------------------------ *)

\* The trigger sources asked for: the three of IVI, keithley192's own
\* spelling, and one no device has.
Sources == {"immediate", "bus", "external", "imm", "internal"}

\* The counts asked for: a negative one, 0 for the memory size, counts up
\* to the memory size and the first count beyond it.
Counts == {0 - 1, 0, 1, 2, READINGS_MEMORY_SIZE, READINGS_MEMORY_SIZE + 1}

set_trigger_source ==
    \E value \in Sources :
        Do("set_trigger_source", [value |-> value],
           SetTriggerSource(dev, Start(simulate, cfg, inst), value))

set_trigger_multi_point_count ==
    /\ dev \in MultiPointDevices
    /\ \E field \in {"trigger_count", "sample_count"}, value \in Counts :
        Do("set_" \o field, [value |-> value],
           SetCount(dev, Start(simulate, cfg, inst), field, value, FALSE))

set_trigger_multi_point_sample_trigger ==
    /\ dev \in MultiPointDevices
    /\ \E value \in Sources :
        Do("set_sample_trigger", [value |-> value],
           SetSampleTrigger(dev, Start(simulate, cfg, inst), value, FALSE))

set_trigger_multi_point_sample_interval ==
    /\ dev \in MultiPointDevices
    /\ \E value \in {0, 1} :
        Do("set_sample_interval", [value |-> value],
           SetSampleInterval(dev, Start(simulate, cfg, inst), value, FALSE))

trigger_multi_point_configure ==
    /\ dev \in MultiPointDevices
    /\ \E tc \in {1, READINGS_MEMORY_SIZE, READINGS_MEMORY_SIZE + 1},
          sc \in {1, READINGS_MEMORY_SIZE},
          st \in {Immediate(dev), "bus"}, si \in {0, 1} :
        Do("configure", [trigger_count |-> tc, sample_count |-> sc,
                         sample_trigger |-> st, sample_interval |-> si],
           TriggerMultiPointConfigure(dev, Start(simulate, cfg, inst),
                                      tc, sc, st, si))

initiate == Do("initiate", NoArgs, Initiate(dev, Start(simulate, cfg, inst)))

\* No _measurement_fetch and no _measurement_read looks at its max_time.
fetch ==
    \E max_time \in {0, 1} :
        Do("fetch", [max_time |-> max_time], Fetch(dev, Start(simulate, cfg, inst)))

read ==
    \E max_time \in {0, 1} :
        Do("read", [max_time |-> max_time], Read(dev, Start(simulate, cfg, inst)))

\* An instrument that is no Virtual199 takes a reading of its own accord
\* (Virtual6031A: on *TRG) and holds it for the next read.
measure ==
    /\ dev \notin KeithleyDevices
    /\ ~simulate
    /\ inst.out = <<>>
    /\ \E line \in Replies(dev) : inst' = [inst EXCEPT !.out = <<line>>]
    /\ call' = CallOf("measure", NoArgs, Start(simulate, cfg, inst),
                      Start(simulate, cfg, inst))
    /\ UNCHANGED <<dev, simulate, cfg>>

NextTrigger ==
    \/ set_trigger_source
    \/ set_trigger_multi_point_count
    \/ set_trigger_multi_point_sample_trigger
    \/ set_trigger_multi_point_sample_interval
    \/ trigger_multi_point_configure
    \/ initiate
    \/ fetch
    \/ read
    \/ measure

SpecTrigger == InitDriver /\ [][NextTrigger]_vars

(* ------------------------------------------------------------------ *)
(* Reading out the readings memory                                    *)
(* ------------------------------------------------------------------ *)

\* '0'*16: an empty memory location of the Keithley meters.
Sentinel == [i \in 1..16 |-> "0"]

\* A list of readings.
ListOf(readings) == [kind |-> "list", items |-> readings]

RECURSIVE DrainFrom(_, _, _, _, _)
\* readings.append(self._parse_measurement_result(raw_result)), and on to
\* the next memory location; a decoder's exception leaves the loop.
DrainParsed(d, s, num, n, readings, r) ==
    IF r.err # NoErr THEN RaiseWith(s, r.err, r.text)
    ELSE DrainFrom(d, s, num + 1, n, Append(readings, r.val))

\* if raw_result != '0'*16 and num < num_of_measurements: ...
DrainRecord(d, s, num, n, readings) ==
    IF s.line # Sentinel /\ num < n
    THEN DrainParsed(d, s, num, n, readings, ParseMeasurementResult(d, s.line))
    ELSE DrainFrom(d, s, num + 1, n, readings)

\* for num in range(self._READINGS_MEMORY_SIZE): raw_result = self._read()
DrainFrom(d, s, num, n, readings) ==
    IF s.err # NoErr THEN s
    ELSE IF num >= READINGS_MEMORY_SIZE THEN Return(s, ListOf(readings))
    ELSE DrainRecord(d, BaseRead(s), num, n, readings)

\* str.split(',').
RECURSIVE Split(_, _)
Split(q, field) ==
    IF q = <<>> THEN <<field>>
    ELSE IF Head(q) = "," THEN <<field>> \o Split(Tail(q), <<>>)
    ELSE Split(Tail(q), Append(field, Head(q)))

\* for raw_result in raw_results:
\*     readings.append(self._parse_measurement_result(raw_result))
RECURSIVE ParseEach(_, _, _, _)
ParseNext(d, s, raw_results, readings, r) ==
    IF r.err # NoErr THEN RaiseWith(s, r.err, r.text)
    ELSE ParseEach(d, s, Tail(raw_results), Append(readings, r.val))

ParseEach(d, s, raw_results, readings) ==
    IF s.err # NoErr THEN s
    ELSE IF raw_results = <<>> THEN Return(s, ListOf(readings))
    ELSE ParseNext(d, s, raw_results, readings,
                   ParseMeasurementResult(d, Head(raw_results)))

\* self._read().split(',') and the loop over it.
SplitLine(d, s) == IF s.err # NoErr THEN s ELSE ParseEach(d, s, Split(s.line, <<>>), <<>>)

\* agilent3456A: '-{0:d}STR', 'RER', one read.
Recall3456A(d, s, n) ==
    SplitLine(d, BaseRead(BaseWrite(d, BaseWrite(d, s,
        <<Tok("STR", "-" \o ToString(n))>>), <<Tok("RER", "")>>)))

\* _measurement_fetch_multi_point without the default: a number of
\* measurements of 0 is passed on as it is.
FetchMultiPointNoDefault(d, s, max_time, num_of_measurements) ==
    IF s.sim THEN Return(s, None)
    ELSE IF max_time # 0 THEN Raise(s, "ValueNotSupported")
    ELSE IF d = "agilent3456A"
         THEN Recall3456A(d, s, num_of_measurements)
    ELSE DrainFrom(d, s, 0, num_of_measurements, <<>>)

\* _measurement_fetch_multi_point.
FetchMultiPoint(d, s, max_time, num_of_measurements) ==
    IF s.sim THEN Return(s, None)
    ELSE IF max_time # 0 THEN Raise(s, "ValueNotSupported")
    ELSE IF d = "agilent3456A"
         THEN Recall3456A(d, s,
                  IF \/ num_of_measurements = 0
                     \/ num_of_measurements > READINGS_MEMORY_SIZE
                  THEN READINGS_MEMORY_SIZE ELSE num_of_measurements)
    ELSE DrainFrom(d, s, 0,
                   IF num_of_measurements = 0 THEN READINGS_MEMORY_SIZE
                   ELSE num_of_measurements, <<>>)

\* What a memory location may hold: two readings, a record that is not a
\* reading, and on the Keithley meters the empty location.
Records(d) ==
    {Reading(d), <<"-">> \o Tail(Reading(d)), <<"?">>}
    \cup (IF d \in KeithleyDevices
          THEN {Sentinel, <<"O">> \o Tail(Reading(d))} ELSE {})

\* ','.join(records).
RECURSIVE Join(_)
Join(records) ==
    IF Len(records) = 1 THEN Head(records)
    ELSE Head(records) \o <<",">> \o Join(Tail(records))

\* The records of a reply line.
RecordsOf(d, line) == IF d = "agilent3456A" THEN Split(line, <<>>) ELSE <<line>>

\* The instrument with a full readings memory to send: a record per read
\* on the Keithley meters, one line of records on agilent3456A.
InitDrain ==
    /\ dev \in MultiPointDevices
    /\ simulate \in BOOLEAN
    /\ cfg = DefaultCfg(dev)
    /\ \E memory \in [1..READINGS_MEMORY_SIZE -> Records(dev)] :
         inst = [DefaultInst EXCEPT
                   !.out = IF dev = "agilent3456A" THEN <<Join(memory)>>
                           ELSE memory]
    /\ call = IdleCall(dev)

fetch_multi_point ==
    /\ dev \in MultiPointDevices
    /\ \E max_time \in {0, 1}, num \in 0..(READINGS_MEMORY_SIZE + 1) :
        Do("fetch_multi_point", [max_time |-> max_time, num |-> num],
           FetchMultiPoint(dev, Start(simulate, cfg, inst), max_time, num))

NextDrain == fetch_multi_point

SpecDrain == InitDrain /\ [][NextDrain]_vars

(* ------------------------------------------------------------------ *)
(* Trigger delay                                                      *)
(* ------------------------------------------------------------------ *)

\* A delay is a whole number of tenths of a millisecond.

\* The conversion that drops the tenths.
RoundTowardsZero(value) ==
    IF value >= 0 THEN value \div 10 ELSE 0 - ((0 - value) \div 10)

\* round(value * 1000): the whole number of milliseconds nearest to the
\* delay, the even one of the two when the delay is halfway.
RoundHalfEven(value) ==
    IF value % 10 < 5 THEN value \div 10
    ELSE IF value % 10 > 5 THEN (value \div 10) + 1
    ELSE IF (value \div 10) % 2 = 0 THEN value \div 10
    ELSE (value \div 10) + 1

\* 'W{0:d}X' (keithley199), '{0:0=+12E}STD' (agilent3456A) and
\* 'DELAY {0:E}' (agilent3458A); the Agilent meters are sent the delay
\* itself.
DelayCommand(d, value) ==
    CASE d = "keithley199" -> <<Tok("W", ToString(RoundHalfEven(value))), X>>
      [] d = "agilent3456A" -> <<Tok("STD", ToString(value))>>
      [] d = "agilent3458A" -> <<Tok("DELAY", ToString(value))>>

\* The delay _set_trigger_delay_auto(True) sets: 0, on the Agilent meters
\* -1 second.
AutoDelay(d) == IF d \in {"agilent3456A", "agilent3458A"} THEN 0 - 10000 ELSE 0

\* _set_trigger_delay.  keithley199 refuses more than 999.999 seconds,
\* prema6031A and philipsPM2534 more than none; keithley199 and the Agilent
\* meters switch the automatic delay off and send the delay.
SetTriggerDelay(d, s, value) ==
    IF s.err # NoErr THEN s
    ELSE IF d \in {"prema6031A", "philipsPM2534"}
         THEN (IF value > 0 THEN Raise(s, "ValueNotSupported")
               ELSE Store(s, "trigger_delay", value))
    ELSE IF d = "keithley199" /\ value > 9999990
         THEN Raise(s, "ValueNotSupported")
    ELSE Send(d, Store(Store(s, "trigger_delay_auto", FALSE), "trigger_delay", value),
              DelayCommand(d, value))

\* _set_trigger_delay_auto: a true value sets the automatic delay first.
SetTriggerDelayAuto(d, s, value) ==
    IF value
    THEN Store(SetTriggerDelay(d, s, AutoDelay(d)), "trigger_delay_auto", value)
    ELSE Store(s, "trigger_delay_auto", value)

\* The delays asked for: none, below and at the resolution of a
\* millisecond, halfway between milliseconds, a negative one, and the
\* largest delay of keithley199 with the next two.
Delays == {0, 1, 10, 15, 25, 0 - 10000, 9999990, 9999991, 10000000}

\* keithley192 defines no delay setter.
set_trigger_delay ==
    /\ dev # "keithley192"
    /\ \E value \in Delays :
        Do("set_trigger_delay", [value |-> value],
           SetTriggerDelay(dev, Start(simulate, cfg, inst), value))

set_trigger_delay_auto ==
    /\ dev # "keithley192"
    /\ \E value \in BOOLEAN :
        Do("set_trigger_delay_auto", [value |-> value],
           SetTriggerDelayAuto(dev, Start(simulate, cfg, inst), value))

SpecDelay ==
    InitDriver /\ [][set_trigger_source \/ set_trigger_delay \/ set_trigger_delay_auto]_vars

(* ------------------------------------------------------------------ *)
(* Software trigger, abort, reset, read_multi_point                   *)
(* ------------------------------------------------------------------ *)

\* ivi.Driver._clear: nothing in simulate mode; an interface clear, which
\* an interface without clear() is sent as '*CLS'.
BaseClear(s) ==
    IF s.err # NoErr \/ s.sim THEN s
    ELSE [s EXCEPT !.tx = Append(@, <<Tok("*CLS", "")>>)]

\* ivi.Driver._trigger: nothing in simulate mode; a bus trigger, which an
\* interface without trigger() is sent as '*TRG' (Virtual199 logs it).
BaseTrigger(s) ==
    IF s.err # NoErr \/ s.sim THEN s
    ELSE [s EXCEPT !.tx = Append(@, <<Tok("*TRG", "")>>)]

\* The devices with a _send_software_trigger.
SoftwareTriggerDevices ==
    {"keithley192", "keithley199", "agilent3456A", "agilent3458A"}

\* _send_software_trigger.
SendSoftwareTrigger(d, s) ==
    IF s.sim THEN s
    ELSE IF Lower(s.cfg.trigger_source) # "bus"
         THEN Raise(s, "TriggerNotSoftwareException")
    ELSE BaseTrigger(s)

\* _measurement_abort.
MeasurementAbort(d, s) == BaseClear(s)

\* The command of _utility_reset, token by token on the Keithley meters.
ResetCommand(d) ==
    CASE d = "keithley199" ->
           <<Tok("A", "1"), Tok("B", "0"), Tok("F", "0"), Tok("G", "0"),
             Tok("J", "0"), Tok("K", "0"), Tok("M", "0"), Tok("P", "0"),
             Tok("Q", "0"), Tok("I", "0"), Tok("R", "4"), Tok("S", "1"),
             Tok("T", "5"), Tok("W", "0"), Tok("Y", "3"), Tok("Z", "0"), X>>
      [] d = "keithley192" ->
           <<Tok("F", "0"), Tok("R", "5"), Tok("Z", "0"), Tok("T", "5"),
             Tok("S", "6"), Tok("W", "1"), Tok("Q", "0"), Tok("K", "0"),
             Tok("M", "0"), Tok("Y", ""), X>>
      [] d = "agilent3456A" -> <<Tok("HA1F1R1T3W6STG100STI-1STD1STNFL1RS0", "")>>
      [] d = "agilent3458A" -> <<Tok("PRESET NORM", "")>>
      [] d = "prema6031A" -> <<Tok("P00F0T5D0Q0MOFL1S1", "")>>
      [] d = "philipsPM2534" -> <<Tok("TRG B", "")>>

\* driver_operation.invalidate_all_attributes(): no attribute of the cache
\* is marked valid any more.
InvalidateAllAttributes(s) == Store(s, "cache_valid", {})

\* _utility_reset that leaves a driver in its default configuration alone.
UtilityResetIfChanged(d, s) ==
    IF s.sim \/ s.cfg = DefaultCfg(d) THEN s
    ELSE InvalidateAllAttributes(
             Write(d, IF d \in {"agilent3456A", "agilent3458A"} THEN BaseClear(s) ELSE s,
                   ResetCommand(d), TRUE))

\* _utility_reset: the Agilent meters clear the interface first.  The
\* attributes keep their values.
UtilityReset(d, s) ==
    IF s.sim THEN s
    ELSE InvalidateAllAttributes(
             Write(d, IF d \in {"agilent3456A", "agilent3458A"} THEN BaseClear(s) ELSE s,
                   ResetCommand(d), TRUE))

\* _measurement_read_multi_point: initiate, fetch_multi_point, and no
\* return of what was fetched.
ReadMultiPoint(d, s, max_time, num_of_measurements) ==
    IF s.sim THEN s
    ELSE Return(FetchMultiPoint(d, Initiate(d, s), max_time, num_of_measurements), None)

send_software_trigger ==
    /\ dev \in SoftwareTriggerDevices
    /\ Do("send_software_trigger", NoArgs,
          SendSoftwareTrigger(dev, Start(simulate, cfg, inst)))

abort == Do("abort", NoArgs, MeasurementAbort(dev, Start(simulate, cfg, inst)))

reset == Do("reset", NoArgs, UtilityReset(dev, Start(simulate, cfg, inst)))

read_multi_point ==
    /\ dev \in MultiPointDevices
    /\ \E max_time \in {0, 1}, num \in {0, 1} :
        Do("read_multi_point", [max_time |-> max_time, num |-> num],
           ReadMultiPoint(dev, Start(simulate, cfg, inst), max_time, num))

\* The calls of the acquisition layer from construction on.
NextSession ==
    \/ set_trigger_source
    \/ send_software_trigger
    \/ abort
    \/ reset
    \/ initiate
    \/ fetch
    \/ read
    \/ measure
    \/ fetch_multi_point
    \/ read_multi_point

SpecSession == InitDriver /\ [][NextSession]_vars

(* ------------------------------------------------------------------ *)
(* The decoders applied to the sample replies                         *)
(* ------------------------------------------------------------------ *)

InitDecode ==
    /\ dev \in Devices
    /\ simulate = FALSE
    /\ cfg = DefaultCfg(dev)
    /\ inst = DefaultInst
    /\ call = IdleCall(dev)

ParseCall(line, parts) ==
    /\ call.op = "none"
    /\ call' = CallOf("parse", [line |-> line] @@ parts,
                      Start(simulate, cfg, inst),
                      ReturnParsed(dev, Start(simulate, cfg, inst), line))
    /\ UNCHANGED <<dev, simulate, cfg, inst>>

Parse ==
    \E l \in SampleLeads, h \in SampleHeads(dev),
       n \in SampleNums(dev), t \in SampleTails(dev) :
        ParseCall(l.text \o h.text \o n.text \o t.text,
                  [lead |-> l, head |-> h, num |-> n, tail |-> t])

\* The empty line: what a read returns when the instrument has nothing to
\* send.
ParseEmpty ==
    LET e == [text |-> <<>>, good |-> FALSE] IN
    ParseCall(<<>>, [lead |-> e, head |-> e @@ [ovf |-> FALSE],
                     num |-> e @@ [val |-> None], tail |-> e])

NextDecode == Parse \/ ParseEmpty

SpecDecode == InitDecode /\ [][NextDecode]_vars

\* The reply is one the device's grammar allows.
Grammatical(a) == a.lead.good /\ a.head.good /\ a.num.good /\ a.tail.good

\* The devices whose replies carry a status tag.
StatusDevices == KeithleyDevices \cup {"philipsPM2534"}

\* C9: on every device a reply line that deviates from the device grammar
\* (a part that is not the grammar's, or the empty line) is refused with
\* UnexpectedResponse carrying the raw line, and never decodes to a value.
C9_WholeLineOrUnexpectedResponse ==
    (call.op = "parse" /\ ~Grammatical(call.args)) =>
        /\ call.err = "UnexpectedResponse"
        /\ call.text = call.args.line
        /\ call.ret = None

\* C10: on keithley192, keithley199 and philipsPM2534 a grammatical reply
\* with the overflow status decodes to a reading that is over range for a
\* numeric field >= 0 and under range for a negative one; with any other
\* status it decodes to the numeric field's value, neither over nor under
\* range.
C10_OverflowFollowsSign ==
    (call.op = "parse" /\ dev \in StatusDevices /\ Grammatical(call.args)) =>
        /\ call.err = NoErr
        /\ IF call.args.head.ovf
           THEN /\ IsOverRange(call.ret) = ~IsNegative(call.args.num.val)
                /\ IsUnderRange(call.ret) = IsNegative(call.args.num.val)
           ELSE /\ call.ret = call.args.num.val
                /\ ~IsOverRange(call.ret)
                /\ ~IsUnderRange(call.ret)

\* An overflow reply with a negative numeric field has been decoded to an
\* under-range reading.
C10_NegativeOverflowDecoded ==
    /\ call.op = "parse"
    /\ dev \in StatusDevices
    /\ Grammatical(call.args)
    /\ call.args.head.ovf
    /\ IsNegative(call.args.num.val)
    /\ IsUnderRange(call.ret)

\* The keys of the table of the function in force at the call that are
\* large enough for the requested magnitude.
C1_Fitting ==
    {k \in Keys(RangeMapping(dev)[call.pre.measurement_function]) :
        Abs(call.args.value) <= k}

\* The least element of a non-empty set of keys.
C1_Least(S) == CHOOSE k \in S : \A j \in S : k <= j

C2_RecordsConsumed ==
    IF call.rd = <<>> THEN 0
    ELSE IF dev = "agilent3456A" THEN Len(RecordsOf(dev, call.rd[1]))
    ELSE Len(call.rd)

\* C2: every fetch_multi_point(0, N) in non-simulate mode consumes exactly
\* READINGS_MEMORY_SIZE reply records, whatever N and the memory content,
\* also when a record fails to decode.
C2_DrainsWholeMemory ==
    (call.op = "fetch_multi_point" /\ ~call.sim /\ call.args.max_time = 0) =>
        C2_RecordsConsumed = READINGS_MEMORY_SIZE

\* The records of the memory before the call that are not empty locations.
C3_Stored == SelectSeq(call.preInst.out, LAMBDA r : r # Sentinel)

\* The number of readings asked for: 0 asks for the whole memory.
C3_Asked ==
    IF call.args.num = 0 \/ call.args.num > READINGS_MEMORY_SIZE
    THEN READINGS_MEMORY_SIZE ELSE call.args.num

\* C3: fetch_multi_point(0, N) on the Keithley meters returns the first N
\* non-sentinel records of the memory in transmission order; sentinels do
\* not count toward N wherever they sit, so that K non-sentinel records
\* give min(N, K) readings.  Stated for a full memory all of whose stored
\* records decode.
C3_FirstStoredReadings ==
    (/\ call.op = "fetch_multi_point"
     /\ ~call.sim
     /\ call.args.max_time = 0
     /\ dev \in KeithleyDevices
     /\ Len(call.preInst.out) = READINGS_MEMORY_SIZE
     /\ \A i \in DOMAIN C3_Stored :
           ParseMeasurementResult(dev, C3_Stored[i]).err = NoErr) =>
        /\ call.err = NoErr
        /\ call.ret =
             ListOf([i \in 1..(IF C3_Asked < Len(C3_Stored) THEN C3_Asked
                               ELSE Len(C3_Stored)) |->
                        ParseMeasurementResult(dev, C3_Stored[i]).val])

\* The calls that set a field of the configuration.
C4_Setters ==
    {"set_range", "set_measurement_function", "set_auto_range",
     "set_trigger_source", "set_trigger_count", "set_sample_count",
     "set_sample_trigger", "set_sample_interval"}

\* C4: a setter that raises leaves every field of the configuration as it
\* was before the call.
C4_FailedSetterChangesNothing ==
    (call.op \in C4_Setters /\ call.err # NoErr) => cfg = call.pre

\* C5: a multi-point setter or trigger_multi_point_configure that refuses
\* its counts or its trigger combination raises ValueNotSupported and has
\* sent nothing by then.
C5_RejectedBeforeAnyWrite ==
    (/\ call.op \in {"set_trigger_count", "set_sample_count",
                     "set_sample_trigger", "set_sample_interval", "configure"}
     /\ call.err # NoErr) =>
        call.err = "ValueNotSupported" /\ call.tx = <<>>

\* C6: with the trigger source immediate and no multi-point setup, a fetch
\* that follows a fetch or a read raises UnexpectedResponse and returns no
\* reading, and a fetch that follows a successful initiate returns the
\* triggered reading (the latter stated for keithley199, whose test
\* instrument answers the trigger).
C6_SecondFetchUnexpectedResponse ==
    [][(/\ ~simulate
        /\ dev \in {"keithley199", "prema6031A"}
        /\ cfg.trigger_source = "immediate"
        /\ cfg.trigger_count = 1 /\ cfg.sample_count = 1
        /\ call'.op = "fetch") =>
         /\ call.op \in {"fetch", "read"} =>
              call'.err = "UnexpectedResponse" /\ call'.ret = None
         /\ (call.op = "initiate" /\ call.err = NoErr /\ dev = "keithley199") =>
              /\ call'.err = NoErr
              /\ call'.ret = ParseMeasurementResult(dev, Reading(dev)).val]_vars

\* C7: read() puts the commands on the transport, performs the reads and
\* returns the result that initiate() followed by fetch() does from the
\* same state.
C7_ReadIsInitiateThenFetch ==
    call.op = "read" =>
        LET s == Fetch(dev, Initiate(dev, Start(call.sim, call.pre, call.preInst)))
        IN  /\ call.tx = s.tx
            /\ call.rd = s.rd
            /\ call.err = s.err
            /\ call.ret = s.ret

\* C8: initiate() in non-simulate mode first sends the trigger setup of the
\* current configuration again (on the devices that have one) and then the
\* trigger command if and only if the trigger source is immediate.
C8_TriggerOnlyWhenImmediate ==
    (call.op = "initiate" /\ ~call.sim /\ call.err = NoErr) =>
        call.tx =
            (IF dev \in KeithleyDevices
             THEN InternalSetupMultiPoint(dev,
                      Start(call.sim, call.pre, call.preInst)).tx
             ELSE <<>>)
            \o (IF Lower(call.pre.trigger_source) = Immediate(dev)
                THEN <<TriggerCommand(dev)>> ELSE <<>>)

\* prema6031A has fetched its overflow reply.
C11_OverflowReply ==
    /\ dev = "prema6031A"
    /\ call.op = "fetch"
    /\ ~call.sim
    /\ call.rd # <<>>
    /\ Strip(Prefix(call.rd[1], 13)) = ERROR01

\* C11 as stated: on prema6031A an overflow reply ('ERROR 01') makes fetch
\* return the out-of-range reading without raising, and is_over_range of
\* that reading is true.
C11_OverflowIsOverRange ==
    C11_OverflowReply =>
        /\ call.err = NoErr
        /\ MeasurementIsOverRange(dev, call.ret).err = NoErr
        /\ MeasurementIsOverRange(dev, call.ret).val = TRUE

\* C11 amended: on prema6031A an overflow reply makes fetch return the
\* out-of-range reading (+infinity) without raising; is_out_of_range of
\* that reading is true and is_over_range raises OperationNotSupported.
C11_OverflowIsOutOfRange ==
    C11_OverflowReply =>
        /\ call.err = NoErr
        /\ call.ret = Inf(FALSE)
        /\ MeasurementIsOutOfRange(dev, call.ret).err = NoErr
        /\ MeasurementIsOutOfRange(dev, call.ret).val = TRUE
        /\ MeasurementIsOverRange(dev, call.ret).err = "OperationNotSupported"

\* The overflow reply has been fetched and decoded to +infinity.
C11_OverflowFetched == C11_OverflowReply /\ call.ret = Inf(FALSE)

\* C15 (first part): a successful set_trigger_delay leaves delay_auto false,
\* a successful set_trigger_delay_auto(v) leaves it v, and a failed call of
\* either leaves it as it was.
C15_AutoFollowsLastCall ==
    /\ (call.op = "set_trigger_delay" /\ call.err = NoErr) =>
           ~cfg.trigger_delay_auto
    /\ (call.op = "set_trigger_delay_auto" /\ call.err = NoErr) =>
           cfg.trigger_delay_auto = call.args.value
    /\ (call.op \in {"set_trigger_delay", "set_trigger_delay_auto"} /\ call.err # NoErr) =>
           cfg.trigger_delay_auto = call.pre.trigger_delay_auto

\* C15 (second part): while delay_auto is true the stored delay is the
\* device's sentinel (0 on keithley199, -1 second on the Agilent meters),
\* and set_trigger_delay_auto(false) sends nothing and leaves the stored
\* delay as it was.
C15_AutoKeepsSentinel ==
    /\ (cfg.trigger_delay_auto /\ dev = "keithley199") => cfg.trigger_delay = 0
    /\ (cfg.trigger_delay_auto /\ dev \in {"agilent3456A", "agilent3458A"}) =>
           cfg.trigger_delay = 0 - 10000
    /\ (call.op = "set_trigger_delay_auto" /\ ~call.args.value) =>
           /\ call.tx = <<>>
           /\ cfg.trigger_delay = call.pre.trigger_delay

\* C15: after any sequence of set_trigger_delay and set_trigger_delay_auto
\* calls delay_auto is true exactly when the last successful call of the
\* two was set_trigger_delay_auto(true), and while it is true the stored
\* delay is the device's sentinel.
C15_DelayAutoExclusive == C15_AutoFollowsLastCall /\ C15_AutoKeepsSentinel

\* The nearest whole number of milliseconds, the even one on a tie.
C16_Milliseconds(v) ==
    CHOOSE m \in {v \div 10, (v \div 10) + 1} :
        \A n \in {v \div 10, (v \div 10) + 1} :
            \/ Abs(10 * m - v) < Abs(10 * n - v)
            \/ Abs(10 * m - v) = Abs(10 * n - v) /\ (m % 2 = 0 \/ m = n)

\* C16: on keithley199 set_trigger_delay(d) with d <= 999.999 s stores d and
\* sends the delay as W<round(1000 d)>X; a longer delay raises
\* ValueNotSupported, sends nothing and leaves the stored delay unchanged.
C16_DelayInMilliseconds ==
    (dev = "keithley199" /\ call.op = "set_trigger_delay") =>
        IF call.args.value <= 9999990
        THEN /\ call.err = NoErr
             /\ cfg.trigger_delay = call.args.value
             /\ ~call.sim =>
                  call.tx = <<<<Tok("W", ToString(C16_Milliseconds(call.args.value))), X>>>>
        ELSE /\ call.err = "ValueNotSupported"
             /\ call.tx = <<>>
             /\ cfg.trigger_delay = call.pre.trigger_delay

\* A delay of 0.0025 s, halfway between two milliseconds, has been sent as
\* W2X and stored as it was given.
C16_HalfwaySent ==
    /\ dev = "keithley199"
    /\ call.op = "set_trigger_delay"
    /\ ~call.sim
    /\ call.args.value = 25
    /\ call.tx = <<<<Tok("W", "2"), X>>>>
    /\ cfg.trigger_delay = 25

\* The handler of a recorded call.
C13_Handler(d, op, a, s) ==
    CASE op = "set_trigger_source" -> SetTriggerSource(d, s, a.value)
      [] op = "send_software_trigger" -> SendSoftwareTrigger(d, s)
      [] op = "abort" -> MeasurementAbort(d, s)
      [] op = "reset" -> UtilityReset(d, s)
      [] op = "initiate" -> Initiate(d, s)
      [] op = "fetch" -> Fetch(d, s)
      [] op = "read" -> Read(d, s)
      [] op = "fetch_multi_point" -> FetchMultiPoint(d, s, a.max_time, a.num)
      [] op = "read_multi_point" -> ReadMultiPoint(d, s, a.max_time, a.num)

\* A call in simulate mode (a) and the same call on the instrument (b),
\* when that one ends without an error or with an error of validation:
\* the same error, the same configuration.
C13_Same(a, b) ==
    b.err \in {NoErr, "ValueNotSupported", "TriggerNotSoftwareException"} =>
        a.err = b.err /\ a.cfg = b.cfg

\* C13: a call raises an error in simulate mode exactly when the same call
\* from the same state raises it in non-simulate mode, and the two leave
\* the same Configuration State.
C13_SimulateRunsValidation ==
    call.op \notin {"none", "measure"} =>
        C13_Same(C13_Handler(dev, call.op, call.args,
                             Start(TRUE, call.pre, call.preInst)),
                 C13_Handler(dev, call.op, call.args,
                             Start(FALSE, call.pre, call.preInst)))

\* C17: send_software_trigger raises TriggerNotSoftwareException and puts
\* nothing on the transport while the trigger source is not bus; with the
\* source bus it issues exactly one bus trigger and changes no
\* Configuration State.
C17_SoftwareTriggerOnlyOnBus ==
    call.op = "send_software_trigger" =>
        IF Lower(call.pre.trigger_source) # "bus"
        THEN /\ call.err = "TriggerNotSoftwareException"
             /\ call.tx = <<>>
             /\ call.rd = <<>>
        ELSE /\ call.err = NoErr
             /\ ~call.sim => call.tx = <<<<Tok("*TRG", "")>>>>
             /\ cfg = call.pre

\* C18: on keithley192, keithley199, agilent3456A, prema6031A and
\* philipsPM2534 a fetch with max_time other than 0 raises
\* ValueNotSupported and reads nothing (stated of the calls on the
\* instrument).
C18_FetchRefusesMaxTime ==
    (/\ call.op = "fetch"
     /\ ~call.sim
     /\ dev # "agilent3458A"
     /\ call.args.max_time # 0) =>
        call.err = "ValueNotSupported" /\ call.rd = <<>>

\* C19: fetch_multi_point and read_multi_point with max_time other than 0
\* raise ValueNotSupported, having sent no command and read no record
\* (stated of the calls on the instrument).
C19_MultiPointRefusesMaxTime ==
    (/\ call.op \in {"fetch_multi_point", "read_multi_point"}
     /\ ~call.sim
     /\ call.args.max_time # 0) =>
        /\ call.err = "ValueNotSupported"
        /\ call.tx = <<>>
        /\ call.rd = <<>>

\* C20: in every configuration state of a multi-point device, whatever
\* multi-point setter and configure calls succeeded or failed before, at
\* most one of trigger_count and sample_count is greater than 1.
C20_AtMostOneCountAboveOne ==
    dev \in MultiPointDevices =>
        ~(cfg.trigger_count > 1 /\ cfg.sample_count > 1)

(* ------------------------------------------------------------------ *)
(* Round trip of function, range and trigger source                   *)
(* ------------------------------------------------------------------ *)

NextRoundTrip == set_measurement_function \/ set_range \/ set_trigger_source

SpecRoundTrip == InitDriver /\ [][NextRoundTrip]_vars

\* The commands the device has received during the call.
C14_Received == {call.tx[i] : i \in 1..Len(call.tx)}

\* The range code of the smallest key that covers the requested magnitude.
C14_RangeCode ==
    CodeOf(RangeMapping(dev)[call.pre.measurement_function], C1_Least(C1_Fitting))

\* C14: after a successful set_measurement_function, set_range or
\* set_trigger_source the getter returns exactly the value that was set
\* (for range the requested magnitude, not the selected breakpoint), in
\* simulate and in non-simulate mode, and outside simulate mode the device
\* has received the command mapped to the value: the function command, the
\* code of the covering breakpoint of a range table, the trigger command of
\* a device that has one (prema6031A and philipsPM2534 have no trigger
\* command).
C14_RoundTrip ==
    call.err = NoErr =>
        /\ call.op = "set_measurement_function" =>
              /\ cfg.measurement_function = call.args.value
              /\ ~call.sim => FunctionCommand(dev, call.args.value) \in C14_Received
        /\ call.op = "set_range" =>
              /\ cfg.range = call.args.value
              /\ (~call.sim /\ dev \in TableDevices) =>
                    RangeCommand(dev, C14_RangeCode) \in C14_Received
        /\ call.op = "set_trigger_source" =>
              /\ cfg.trigger_source = call.args.value
              /\ (~call.sim /\ dev \notin {"prema6031A", "philipsPM2534"}) =>
                    TriggerSourceCommand(dev,
                        TriggerSourceMapping(dev)[call.args.value]) \in C14_Received

\* A magnitude strictly between two breakpoints of a resistance table has
\* been set outside simulate mode: the magnitude is stored and the code of
\* the breakpoint above it has been sent.
C14_BetweenBreakpoints ==
    /\ call.op = "set_range"
    /\ call.err = NoErr
    /\ ~call.sim
    /\ dev \in TableDevices
    /\ call.pre.measurement_function = "two_wire_resistance"
    /\ Abs(call.args.value) \notin Keys(RangeMapping(dev)[call.pre.measurement_function])
    /\ cfg.range = call.args.value
    /\ RangeCommand(dev, C14_RangeCode) \in C14_Received

(* ------------------------------------------------------------------ *)
(* Simulate mode                                                      *)
(* ------------------------------------------------------------------ *)

\* The driver after construction with simulate = True.
InitSimulate == InitDriver /\ simulate

NextSimulate ==
    \/ set_measurement_function
    \/ set_trigger_source
    \/ set_trigger_multi_point_count
    \/ trigger_multi_point_configure
    \/ reset
    \/ initiate
    \/ fetch
    \/ read
    \/ abort
    \/ send_software_trigger
    \/ fetch_multi_point
    \/ read_multi_point

SpecSimulate == InitSimulate /\ [][NextSimulate]_vars

\* The cached field of a setter.
C12_Field ==
    [set_measurement_function |-> "measurement_function",
     set_trigger_source |-> "trigger_source",
     set_trigger_count |-> "trigger_count",
     set_sample_count |-> "sample_count"]

\* Nothing has gone to or come from the transport during the call.
C12_NoWireIO == call.tx = <<>> /\ call.rd = <<>> /\ inst = call.preInst

\* The count a multi-point setter keeps for a request: 0 asks for the
\* whole readings memory.
C12_Count(value) == IF value = 0 THEN READINGS_MEMORY_SIZE ELSE value

C21_RunsSinglePoint ==
    /\ dev \in KeithleyDevices
    /\ ~call.sim
    /\ CASE call.op = "set_trigger_count" ->
              call.args.value = 1 /\ call.pre.sample_count = 1
         [] call.op = "set_sample_count" ->
              call.args.value = 1 /\ call.pre.trigger_count = 1
         [] call.op = "set_sample_trigger" ->
              /\ call.pre.trigger_count = 1 /\ call.pre.sample_count = 1
              /\ Lower(call.args.value) \in DOMAIN TriggerSourceMapping(dev)
         [] call.op = "set_sample_interval" ->
              /\ call.pre.trigger_count = 1 /\ call.pre.sample_count = 1
              /\ call.args.value = 0
         [] call.op = "configure" ->
              /\ call.args.trigger_count = 1 /\ call.args.sample_count = 1
              /\ Lower(call.args.sample_trigger) \in DOMAIN TriggerSourceMapping(dev)
              /\ call.args.sample_interval = 0
         [] call.op = "initiate" ->
              call.pre.trigger_count = 1 /\ call.pre.sample_count = 1
         [] OTHER -> FALSE

\* The plain trigger-source codes of the Keithley meters.
C21_PlainCode == [immediate |-> "5", imm |-> "5", bus |-> "3", external |-> "7"]

C22_MultiPointSent ==
    {call.tx[k] : k \in {j \in 1..Len(call.tx) : call.tx[j][1] = Tok("Q", "1")}}

C23_TCommands ==
    {k \in 1..Len(call.tx) : \E i \in 1..Len(call.tx[k]) : call.tx[k][i][1] = "T"}

\* The T code of a command.
C23_CodeIn(c) == (CHOOSE tok \in {c[i] : i \in 1..Len(c)} : tok[1] = "T")[2]

\* The last T code sent during the call.
C23_LastCode ==
    C23_CodeIn(call.tx[CHOOSE k \in C23_TCommands : \A j \in C23_TCommands : j <= k])

\* The Trigger Matrix of keithley192 (class docstring and the table of
\* _internal_setup_multi_point): the plain code of the trigger source when
\* both counts are 1; otherwise 4 for imm/imm, and for exactly one of the
\* sources being bus 2 (sample_count = 100) or 3 (trigger_count = 100).
C23_Resolution(c) ==
    IF c.trigger_count = 1 /\ c.sample_count = 1
    THEN TriggerSourceMapping(dev)[Lower(c.trigger_source)]
    ELSE IF Lower(c.trigger_source) = "imm" /\ Lower(c.sample_trigger) = "imm"
         THEN "4"
    ELSE IF c.trigger_count > 1 THEN "3" ELSE "2"

\* The configuration is one the matrix of keithley192 has an entry for.
C23_Resolvable(c) ==
    \/ c.trigger_count = 1 /\ c.sample_count = 1
    \/ /\ {Lower(c.trigger_source), Lower(c.sample_trigger)} \in
              {{"imm"}, {"imm", "bus"}}
       /\ ~(c.trigger_count > 1 /\ c.sample_count > 1)
       /\ ~({Lower(c.sample_trigger), Lower(c.trigger_source)} = {"imm"}
              /\ c.trigger_count > 1)

\* C23: after every successful change of a multi-point field or of the
\* plain trigger source on keithley192, the last trigger-mode code the
\* device has been sent is the Trigger Matrix resolution of the current
\* configuration; set_trigger_source with multi-point enabled does not leave
\* the device with the plain trigger-source code.
C23_CodeFollowsMatrix ==
    (/\ dev = "keithley192"
     /\ ~call.sim
     /\ call.err = NoErr
     /\ call.op \in {"set_trigger_source", "set_trigger_count", "set_sample_count",
                     "set_sample_trigger", "set_sample_interval", "configure"}
     /\ C23_Resolvable(cfg)) =>
        /\ C23_TCommands # {}
        /\ C23_LastCode = C23_Resolution(cfg)

\* The call is a multi-point setter or configure of keithley192 outside
\* simulate mode whose argument passed the setter's own validation (a
\* count is 1 or 100, and not 100 while the other count stored is 100).
C24_Validated ==
    /\ dev = "keithley192"
    /\ ~call.sim
    /\ CASE call.op = "set_trigger_count" ->
              /\ call.args.value \in {1, READINGS_MEMORY_SIZE}
              /\ ~(call.args.value = READINGS_MEMORY_SIZE
                     /\ call.pre.sample_count = READINGS_MEMORY_SIZE)
         [] call.op = "set_sample_count" ->
              /\ call.args.value \in {1, READINGS_MEMORY_SIZE}
              /\ ~(call.args.value = READINGS_MEMORY_SIZE
                     /\ call.pre.trigger_count = READINGS_MEMORY_SIZE)
         [] call.op = "set_sample_trigger" -> call.args.value \in {"imm", "bus"}
         [] call.op = "set_sample_interval" -> call.args.value = 0
         [] call.op = "configure" ->
              /\ call.args.trigger_count \in {1, READINGS_MEMORY_SIZE}
              /\ call.args.sample_count \in {1, READINGS_MEMORY_SIZE}
              /\ ~(call.args.trigger_count = READINGS_MEMORY_SIZE
                     /\ call.pre.sample_count = READINGS_MEMORY_SIZE)
              /\ ~(call.args.sample_count = READINGS_MEMORY_SIZE
                     /\ call.args.trigger_count = READINGS_MEMORY_SIZE)
              /\ call.args.sample_trigger \in {"imm", "bus"}
              /\ call.args.sample_interval = 0
         [] OTHER -> FALSE

\* C24: on keithley192 with multi-point enabled (one count 100) and both
\* sources among imm and bus, a multi-point setter sends exactly the
\* command of the documented table: Q1T4 for imm/imm with sample_count 100,
\* Q1T2 (sample_count 100) or Q1T3 (trigger_count 100) when exactly one
\* source is bus; bus/bus and imm/imm with trigger_count 100 raise
\* ValueNotSupported and nothing is sent.
C24_Table192 ==
    (/\ C24_Validated
     /\ cfg.trigger_count > 1 \/ cfg.sample_count > 1
     /\ cfg.sample_trigger \in {"imm", "bus"}) =>
        IF C23_Resolvable(cfg)
        THEN /\ call.err = NoErr
             /\ call.tx = <<<<Tok("Q", "1"), Tok("T", C23_Resolution(cfg))>>>>
        ELSE /\ call.err = "ValueNotSupported"
             /\ call.tx = <<>>

\* With trigger source bus and sample trigger imm the trigger count has
\* been set to the memory size: Q1T3 has been sent.
C24_BusImmOneShot ==
    /\ C24_Validated
    /\ call.op = "set_trigger_count"
    /\ cfg.trigger_count = READINGS_MEMORY_SIZE
    /\ cfg.trigger_source = "bus"
    /\ cfg.sample_trigger = "imm"
    /\ call.tx = <<<<Tok("Q", "1"), Tok("T", "3")>>>>

\* The call is a multi-point setter or configure of keithley199 outside
\* simulate mode whose argument passed the setter's own validation.
C25_Validated ==
    /\ dev = "keithley199"
    /\ ~call.sim
    /\ CASE call.op \in {"set_trigger_count", "set_sample_count"} ->
              call.args.value \in 0..READINGS_MEMORY_SIZE
         [] call.op = "set_sample_trigger" ->
              call.args.value \in {"immediate", "bus", "external"}
         [] call.op = "set_sample_interval" -> call.args.value = 0
         [] call.op = "configure" ->
              /\ call.args.trigger_count \in 0..READINGS_MEMORY_SIZE
              /\ call.args.sample_count \in 0..READINGS_MEMORY_SIZE
              /\ call.args.sample_trigger \in {"immediate", "bus", "external"}
              /\ call.args.sample_interval = 0
         [] OTHER -> FALSE

\* The documented table of keithley199: the code for a (trigger source,
\* sample trigger) pair and the count that exceeds 1, "" where the pair is
\* not supported.
C25_Code(source, sample_trigger, trigger_count) ==
    CASE source = "immediate" /\ sample_trigger = "immediate" ->
           IF trigger_count > 1 THEN "" ELSE "4"
      [] {source, sample_trigger} = {"immediate", "external"} ->
           IF trigger_count > 1 THEN "7" ELSE "6"
      [] source = "bus" /\ sample_trigger = "immediate" ->
           IF trigger_count > 1 THEN "3" ELSE "2"
      [] OTHER -> ""

\* C25: on keithley199 with exactly one count greater than 1 and a trigger
\* source and sample trigger the setters accept, a multi-point setter
\* sends the trigger setting of the documented table (T4, T6 or T7, T2 or
\* T3), and raises ValueNotSupported for every other pair.
C25_Table199 ==
    (/\ C25_Validated
     /\ (cfg.trigger_count > 1) # (cfg.sample_count > 1)
     /\ cfg.sample_trigger \in {"immediate", "bus", "external"}) =>
        IF C25_Code(cfg.trigger_source, cfg.sample_trigger, cfg.trigger_count) # ""
        THEN /\ call.err = NoErr
             /\ call.tx # <<>>
             /\ Last(Last(call.tx)) =
                    Tok("T", C25_Code(cfg.trigger_source, cfg.sample_trigger,
                                      cfg.trigger_count))
        ELSE call.err = "ValueNotSupported"

\* The configuration field of a count setter.
C26_Field == IF call.op = "set_trigger_count" THEN "trigger_count" ELSE "sample_count"

\* C26: on keithley199, in a configuration that differs from the default
\* one at most in the count being set, setting the trigger count or the
\* sample count to any n with 1 <= n <= READINGS_MEMORY_SIZE succeeds and
\* the count reads back n, a first set and a later set to another value
\* alike.
C26_CountRoundTrip ==
    (/\ dev = "keithley199"
     /\ call.op \in {"set_trigger_count", "set_sample_count"}
     /\ call.args.value \in 1..READINGS_MEMORY_SIZE
     /\ [call.pre EXCEPT ![C26_Field] = 1] = DefaultCfg(dev)) =>
        /\ call.err = NoErr
        /\ cfg[C26_Field] = call.args.value

\* The devices whose set_auto_range('off') sets the stored range again.
C27_Devices == {"keithley192", "keithley199", "agilent3456A", "philipsPM2534"}

\* The keys of the current function's range table that cover the range
\* stored before the call.
C27_Fitting ==
    {k \in Keys(RangeMapping(dev)[call.pre.measurement_function]) :
        Abs(call.pre.range) <= k}

\* The range command of the range stored before the call.
C27_StoredRangeCommand ==
    IF dev = "philipsPM2534" THEN <<Tok("RNG", ToString(Abs(call.pre.range)))>>
    ELSE RangeCommand(dev, CodeOf(RangeMapping(dev)[call.pre.measurement_function],
                                  C1_Least(C27_Fitting)))

\* C27: outside simulate mode set_auto_range('on') sends the auto-range
\* command of the device and nothing else; set_auto_range('off') on
\* keithley192, keithley199, agilent3456A and philipsPM2534 succeeds, sends
\* the range command of the stored range and leaves auto_range 'off',
\* whatever function and range changes came before.
C27_AutoRangeOffReissues ==
    (/\ call.op = "set_auto_range"
     /\ ~call.sim
     /\ dev \in C27_Devices) =>
        /\ call.args.value = "on" =>
              /\ call.err = NoErr
              /\ call.tx = <<CASE dev \in KeithleyDevices -> <<Tok("R", "0"), X>>
                               [] dev = "agilent3456A" -> <<Tok("R", "1")>>
                               [] dev = "philipsPM2534" -> <<Tok("RNG", "A")>>>>
        /\ call.args.value = "off" =>
              /\ call.err = NoErr
              /\ cfg.auto_range = "off"
              /\ call.tx = <<C27_StoredRangeCommand>>

\* The largest magnitude the current measurement function can be given a
\* range for: the largest key of its range table, RangeMax on
\* philipsPM2534.
C28_LargestKey ==
    IF dev = "philipsPM2534" THEN RangeMax[cfg.measurement_function]
    ELSE CHOOSE k \in Keys(RangeMapping(dev)[cfg.measurement_function]) :
            \A j \in Keys(RangeMapping(dev)[cfg.measurement_function]) : j <= k

\* C28: in every reachable configuration of a device with a range table
\* (philipsPM2534: with RangeMax) the magnitude of the stored range is at
\* most the largest key of the table of the current measurement function.
C28_RangeCoveredByFunction ==
    dev \in TableDevices \cup {"philipsPM2534"} =>
        Abs(cfg.range) <= C28_LargestKey

\* C29: on prema6031A and philipsPM2534 set_trigger_source raises
\* ValueNotSupported for every value but 'immediate' and set_trigger_delay
\* for every value but 0, negative ones included, so that the stored
\* trigger source is always 'immediate' and the stored trigger delay 0.
C29_OnlyTrivialTrigger ==
    dev \in {"prema6031A", "philipsPM2534"} =>
        /\ cfg.trigger_source = "immediate"
        /\ cfg.trigger_delay = 0
        /\ (call.op = "set_trigger_source" /\ call.args.value # "immediate") =>
              call.err = "ValueNotSupported"
        /\ (call.op = "set_trigger_delay" /\ call.args.value # 0) =>
              call.err = "ValueNotSupported"

\* The reset command is the last command the call has sent.
C30_Reissued == call.tx # <<>> /\ Last(call.tx) = ResetCommand(dev)

C31_WholeMemory == FetchMultiPoint(dev, Start(call.sim, call.pre, call.preInst), 0, READINGS_MEMORY_SIZE)

\* The call returned, raised, sent and read what s did, and left the same
\* driver and instrument.
C31_Same(s) ==
    /\ call.ret = s.ret
    /\ call.err = s.err
    /\ call.text = s.text
    /\ call.tx = s.tx
    /\ call.rd = s.rd
    /\ cfg = s.cfg
    /\ inst = s.inst

\* C31: fetch_multi_point(0, N) with N = 0 or N > READINGS_MEMORY_SIZE
\* returns the same readings and performs the same transport operations
\* as fetch_multi_point(0, READINGS_MEMORY_SIZE), whatever the memory holds.
C31_DefaultIsWholeMemory ==
    (/\ call.op = "fetch_multi_point"
     /\ call.args.max_time = 0
     /\ \/ call.args.num = 0
        \/ call.args.num > READINGS_MEMORY_SIZE)
    => C31_Same(C31_WholeMemory)

\* Outside simulate mode fetch_multi_point(0, 0) returned a list of
\* READINGS_MEMORY_SIZE readings.
C31_WholeMemoryFetched ==
    /\ call.op = "fetch_multi_point"
    /\ ~call.sim
    /\ call.args.max_time = 0
    /\ call.args.num = 0
    /\ call.err = NoErr
    /\ call.ret # None
    /\ Len(call.ret.items) = READINGS_MEMORY_SIZE

(* ------------------------------------------------------------------ *)
(* C32: repeated read-out of the readings memory                      *)
(* ------------------------------------------------------------------ *)

\* The readings memory of the Keithley meters as the driver's read-out
\* loop takes it to be ("the instrument has no seek instruction, so always
\* read through the entire memory"): each read delivers the next location,
\* and the location read comes up again after the last one.  first is the
\* memory as it is read from its first location.
InitMemory ==
    /\ dev \in KeithleyDevices
    /\ simulate \in BOOLEAN
    /\ cfg = DefaultCfg(dev)
    /\ \E memory \in [1..READINGS_MEMORY_SIZE -> Records(dev)] :
         inst = [mode |-> "X", out |-> memory, first |-> memory]
    /\ call = IdleCall(dev)

\* The locations the call has read are behind the last one afterwards.
C32_Recirculated(s) == [s.inst EXCEPT !.out = @ \o s.rd]

\* The call on the memory, s being the handler's final call state.
C32_DoOnMemory(op, args, s) ==
    /\ call' = CallOf(op, args, Start(simulate, cfg, inst), s)
    /\ cfg' = s.cfg
    /\ inst' = C32_Recirculated(s)
    /\ UNCHANGED <<dev, simulate>>

\* dmm.measurement.fetch_multi_point on a memory that is not written to
\* between the calls.
measurement_fetch_multi_point ==
    \E max_time \in {0, 1}, num \in 0..(READINGS_MEMORY_SIZE + 1) :
        C32_DoOnMemory("fetch_multi_point", [max_time |-> max_time, num |-> num],
                       FetchMultiPoint(dev, Start(simulate, cfg, inst), max_time, num))

SpecMemory == InitMemory /\ [][measurement_fetch_multi_point]_vars

\* The call sent nothing and did what s did.
C32_SameOutcome(s) ==
    /\ call.tx = <<>>
    /\ call.ret = s.ret
    /\ call.err = s.err

\* C32: on keithley192 and keithley199 fetch_multi_point sends no command
\* and returns the data from the first location of the memory on: on a
\* memory that has not changed, every call returns what a call with the
\* same number of measurements returns when the memory is read from its
\* first location.
C32_FromFirstLocation ==
    (/\ call.op = "fetch_multi_point"
     /\ ~call.sim
     /\ call.args.max_time = 0)
    => C32_SameOutcome(FetchMultiPoint(dev,
           Start(FALSE, call.pre, [call.preInst EXCEPT !.out = inst.first]),
           0, call.args.num))

(* ------------------------------------------------------------------ *)
(* C33: the stored trigger delay is not negative                      *)
(* ------------------------------------------------------------------ *)

\* The devices that support a trigger delay.
C33_Devices == {"keithley199", "agilent3456A", "agilent3458A"}

\* C33: on keithley199, agilent3456A and agilent3458A the stored
\* trigger_delay is >= 0 unless trigger_delay_auto is true, and
\* set_trigger_delay with a negative value raises and stores nothing.
C33_DelayNotNegative ==
    dev \in C33_Devices =>
        /\ cfg.trigger_delay_auto \/ cfg.trigger_delay >= 0
        /\ (call.op = "set_trigger_delay" /\ call.args.value < 0)
               => (call.err # NoErr /\ cfg = call.pre)

(* ------------------------------------------------------------------ *)
(* C34: the reading a settings change provokes is taken out           *)
(* ------------------------------------------------------------------ *)

\* The trigger mode of the meter once the T tokens of a command are in
\* effect.
RECURSIVE C34_ModeAfter(_, _)
C34_ModeAfter(mode, cmd) ==
    IF cmd = <<>> THEN mode
    ELSE IF Head(cmd)[1] = "T" /\ Head(cmd)[2] \in DOMAIN trigger_mapping
         THEN C34_ModeAfter(trigger_mapping[Head(cmd)[2]], Tail(cmd))
    ELSE C34_ModeAfter(mode, Tail(cmd))

\* The number of commands of tx that end in X and reach the meter while
\* its trigger mode is the immediate one, trigger on X.
RECURSIVE C34_Provoked(_, _)
C34_Provoked(mode, tx) ==
    IF tx = <<>> THEN 0
    ELSE (IF Last(Head(tx)) = X /\ C34_ModeAfter(mode, Head(tx)) = "X" THEN 1 ELSE 0)
         + C34_Provoked(C34_ModeAfter(mode, Head(tx)), Tail(tx))

\* The setters and reset.
C34_Setters ==
    {"set_trigger_source", "set_measurement_function", "set_range",
     "set_auto_range", "set_trigger_delay", "reset"}

\* C34: on keithley192 and keithley199 a setter or reset() reads once for
\* every command ending in X that it sends while the meter triggers on X,
\* so that no reading provoked by the change is left pending;
\* set_trigger_source goes by the trigger source it sets.
C34_ProvokedReadingsDiscarded ==
    (/\ dev \in KeithleyDevices
     /\ ~call.sim
     /\ call.err = NoErr
     /\ call.op \in C34_Setters)
    => Len(call.rd) = C34_Provoked(call.preInst.mode, call.tx)

(* ------------------------------------------------------------------ *)
(* C35: the stored counts stay within the readings memory             *)
(* ------------------------------------------------------------------ *)

\* The count the recorded count setter is about.
C35_Field == IF call.op = "set_trigger_count" THEN "trigger_count" ELSE "sample_count"

\* The stored count after a count setter was called with value.
C35_AfterCountSetter(field, value) ==
    /\ (value = 0 /\ dev # "keithley192") => cfg[field] = READINGS_MEMORY_SIZE
    /\ (value < 0 \/ value > READINGS_MEMORY_SIZE)
           => (call.err = "ValueNotSupported" /\ cfg = call.pre)

\* C35: on keithley192, keithley199 and agilent3456A the stored trigger
\* count and sample count are always between 1 and READINGS_MEMORY_SIZE;
\* keithley199 and agilent3456A store a requested 0 as
\* READINGS_MEMORY_SIZE, and a negative count or one above
\* READINGS_MEMORY_SIZE raises ValueNotSupported and is not stored.
C35_CountsWithinMemory ==
    dev \in MultiPointDevices =>
        /\ cfg.trigger_count \in 1..READINGS_MEMORY_SIZE
        /\ cfg.sample_count \in 1..READINGS_MEMORY_SIZE
        /\ call.op \in {"set_trigger_count", "set_sample_count"}
               => C35_AfterCountSetter(C35_Field, call.args.value)
        /\ (call.op = "configure" /\ call.args.trigger_count > READINGS_MEMORY_SIZE)
               => (call.err = "ValueNotSupported" /\ cfg = call.pre)

\* A count of 0 was stored as the memory size where the count was 1.
C35_ZeroStoredAsMemorySize ==
    /\ dev \in {"keithley199", "agilent3456A"}
    /\ call.op \in {"set_trigger_count", "set_sample_count"}
    /\ call.args.value = 0
    /\ call.pre[C35_Field] = 1
    /\ call.err = NoErr
    /\ cfg[C35_Field] = READINGS_MEMORY_SIZE

(* ------------------------------------------------------------------ *)
(* C36: what read_multi_point returns                                 *)
(* ------------------------------------------------------------------ *)

\* The call returned, or raised, what s did.
C36_SameResult(s) ==
    /\ call.err = s.err
    /\ call.ret = s.ret

\* C36: outside simulate mode read_multi_point(0, N) returns the list of
\* readings that fetch_multi_point(0, N) produces after initiate().
C36_ReadReturnsFetched ==
    (/\ call.op = "read_multi_point"
     /\ ~call.sim
     /\ call.args.max_time = 0)
    => C36_SameResult(FetchMultiPoint(dev,
           Initiate(dev, Start(FALSE, call.pre, call.preInst)),
           0, call.args.num))

(* ------------------------------------------------------------------ *)
(* C37: configure of keithley192 from any configuration               *)
(* ------------------------------------------------------------------ *)

\* The combinations keithley192 supports: 1, 1; the memory size and 1 with
\* trigger/sample trigger bus/imm or imm/bus; 1 and the memory size with
\* imm/imm, bus/imm or imm/bus.
C37_Supported(source, a) ==
    /\ a.sample_interval = 0
    /\ a.sample_trigger \in {"imm", "bus"}
    /\ \/ a.trigger_count = 1 /\ a.sample_count = 1
       \/ /\ a.trigger_count = READINGS_MEMORY_SIZE
          /\ a.sample_count = 1
          /\ <<source, a.sample_trigger>> \in {<<"bus", "imm">>, <<"imm", "bus">>}
       \/ /\ a.trigger_count = 1
          /\ a.sample_count = READINGS_MEMORY_SIZE
          /\ <<source, a.sample_trigger>>
                 \in {<<"imm", "imm">>, <<"bus", "imm">>, <<"imm", "bus">>}

\* C37: on keithley192 trigger_multi_point_configure with a supported
\* target combination succeeds and leaves the counts asked for, whatever
\* the configuration before the call.
C37_ConfigureFromAnyState ==
    (/\ dev = "keithley192"
     /\ call.op = "configure"
     /\ Lower(call.pre.trigger_source) \in {"imm", "bus"}
     /\ C37_Supported(Lower(call.pre.trigger_source), call.args)) =>
        /\ call.err = NoErr
        /\ cfg.trigger_count = call.args.trigger_count
        /\ cfg.sample_count = call.args.sample_count

(* ------------------------------------------------------------------ *)
(* C38: configure is all-or-nothing                                   *)
(* ------------------------------------------------------------------ *)

\* C38: a trigger_multi_point_configure that raises leaves trigger_count,
\* sample_count, sample_trigger and sample_interval as they were before
\* the call and has sent no command.
C38_ConfigureAllOrNothing ==
    (/\ dev \in MultiPointDevices
     /\ call.op = "configure"
     /\ call.err # NoErr) =>
        /\ cfg.trigger_count = call.pre.trigger_count
        /\ cfg.sample_count = call.pre.sample_count
        /\ cfg.sample_trigger = call.pre.sample_trigger
        /\ cfg.sample_interval = call.pre.sample_interval
        /\ call.tx = <<>>

(* ------------------------------------------------------------------ *)
(* C39: the spelling of 'on' in set_auto_range                        *)
(* ------------------------------------------------------------------ *)

\* The devices whose _set_auto_range sends either the auto-range command
\* or the command of the stored range.
C39_Devices == {"keithley192", "keithley199", "agilent3456A", "philipsPM2534"}

\* C39: every spelling that set_auto_range accepts as 'on' sends the
\* auto-range command of the device, as 'on' does, and never the command
\* of the stored range.
C39_OnInAnyCase ==
    (/\ dev \in C39_Devices
     /\ ~call.sim
     /\ call.op = "set_auto_range"
     /\ Lower(call.args.value) = "on") =>
        /\ call.err = NoErr
        /\ call.tx = <<AutoRangeOn(dev)>>

(* ------------------------------------------------------------------ *)
(* C40: reading storage of agilent3456A                               *)
(* ------------------------------------------------------------------ *)

\* C40: on agilent3456A the reading-storage command that ends a successful
\* set of trigger_count or sample_count is RS1 exactly when a count is
\* above 1, and RS0 when both counts are 1.
C40_StorageFollowsCounts ==
    (/\ dev = "agilent3456A"
     /\ ~call.sim
     /\ call.op \in {"set_trigger_count", "set_sample_count"}
     /\ call.err = NoErr) =>
        /\ call.tx # <<>>
        /\ Last(call.tx)
             = <<Tok("RS", IF cfg.trigger_count > 1 \/ cfg.sample_count > 1
                           THEN "1" ELSE "0")>>

====
